---- MODULE Spec2Model ----
(***************************************************************************)
(* A model of the airship HTTP resource server: the server shim           *)
(* (src/src/server.rs), the per-request state (src/src/types.rs), the      *)
(* resource callbacks (src/src/resource.rs) and the Webmachine decision    *)
(* graph (src/src/decision.rs).                                            *)
(*                                                                         *)
(* One request is served.  The request method is fixed when the request    *)
(* arrives.  A request header is resolved the first time a node reads it   *)
(* and is remembered (req), so that a second read observes the same        *)
(* request.  A resource callback is invoked anew each time a node calls    *)
(* it and may answer differently each time; cb keeps its last answer.  A   *)
(* state in which a header is still unresolved stands for every request    *)
(* that agrees on the resolved part.  Where a resource is to answer in a   *)
(* settled way, answers holds what its callbacks return.                   *)
(*                                                                         *)
(* The router (src/src/route.rs) is modelled on strings, character by      *)
(* character, base64 keys included.  SpecRoute builds the trie from every  *)
(* small RoutingSpec and lets two clients look paths up; SpecInFlight      *)
(* serves two requests with their traversals interleaved.                  *)
(* SpecAccept applies map_accept_media to every small Accept header and    *)
(* provided list.                                                          *)
(* SpecLookup routes one path at a time over templates whose leaves meet   *)
(* at a trie key; SpecTwin serves a GET request and the same request with  *)
(* the method HEAD step for step.                                          *)
(***************************************************************************)
EXTENDS Integers, Sequences, FiniteSets

VARIABLES
    method,               \* req.method()
    req,                  \* request headers read so far: header name -> Option<value>
    cb,                   \* what each callback returned when last invoked: Option<value>
    calls,                \* number of invocations of each callback
    node,                 \* the decision node about to run (or the one that halted)
    decision_trace,       \* AirshipState.decision_trace
    response,             \* AirshipState.response: Option<Response>
    matched_content_type, \* AirshipState.matched_content_type: Option<(Mime, body_fn)>
    request_time,         \* AirshipState.request_time: Option, None until read
    path,                 \* req.path()
    final,                \* the response handed back to the transport: Option<Response>
    actions_run,          \* the accepted-content actions run so far, in order
    routing_spec,         \* the RoutingSpec the server was built from
    airship_routes,       \* Airship.routes: the RoutingTrie
    lookups,              \* the calls of route::route in progress, one per client
    running,              \* which of two requests in flight the request variables hold
    parked,               \* the other request in flight: its request and RequestState
    alone,                \* each request as it ended when served alone: Option
    negotiation,          \* a call of map_accept_media: its arguments, what it returned
    answers               \* what each callback answers when invoked next, where that is
                          \* settled: callback name -> Option<value>

\* The request being served and its RequestState.
request_vars == <<method, path, req, cb, calls, node, decision_trace, response,
                  matched_content_type, request_time, final, actions_run>>

\* The router: built once, then only read.
router_vars == <<routing_spec, airship_routes, lookups>>

\* The two requests in flight and the resource they are routed to.
in_flight_vars == <<running, parked, alone, answers>>

\* A call of map_accept_media on its own.
negotiation_vars == <<negotiation>>

\* All that a step of the request being served leaves alone.
beside_request == <<router_vars, in_flight_vars, negotiation_vars>>

vars == <<method, path, req, cb, calls, node, decision_trace, response,
          matched_content_type, request_time, final, actions_run,
          routing_spec, airship_routes, lookups, running, parked, alone,
          negotiation, answers>>

----------------------------------------------------------------------------
(* Bounds of the model. *)

\* Dates are 0..MaxDate; only their order matters to the graph.
MaxDate == 1

\* f06 and f07 call each other without end when Accept-Encoding is present;
\* the model follows the cycle for this many visits of f07.
MaxEncodingVisits == 2

----------------------------------------------------------------------------
(* Option<T>: None is the empty sequence, Some(x) the one-element sequence. *)

None == <<>>

Some(x) == <<x>>

IsSome(o) == o # None

Unwrap(o) == o[1]

Opt(S) == {None} \cup {Some(x) : x \in S}

Dates == 0..MaxDate

----------------------------------------------------------------------------
(* Requests. *)

\* hyper::Method: the nine standard methods b12 knows, and one extension
\* method (Method::Extension) that it does not.
KnownMethods == <<"GET", "POST", "HEAD", "PUT", "DELETE", "TRACE", "CONNECT",
                  "OPTIONS", "PATCH">>

SeqToSet(s) == {s[i] : i \in DOMAIN s}

Methods == SeqToSet(KnownMethods) \cup {"BREW"}

Mime(t, s) == [type |-> t, subtype |-> s]

TEXT_PLAIN == Mime("text", "plain")

APPLICATION_JSON == Mime("application", "json")

APPLICATION_XML == Mime("application", "xml")

STAR_STAR == Mime("*", "*")

STAR == "*"

\* hyper::header::QualityItem<Mime>; quality in thousandths as hyper keeps it.
QItem(m, quality) == [item |-> m, quality |-> quality]

q(n) == n

\* The Accept headers a request may carry.
AcceptHeaders ==
    { <<QItem(APPLICATION_XML, 1000)>>,
      <<QItem(APPLICATION_JSON, 800), QItem(TEXT_PLAIN, 500)>>,
      <<QItem(Mime("text", "*"), 500), QItem(STAR_STAR, 100)>>,
      <<QItem(TEXT_PLAIN, 0), QItem(APPLICATION_JSON, 1000)>> }

\* IfMatch / IfNoneMatch: Any, or Items(etags).
Any == [kind |-> "Any", etags |-> <<>>]

Items(etags) == [kind |-> "Items", etags |-> etags]

EtagHeaders == {Any, Items(<<>>), Items(<<"v1">>)}

HeaderNames == {"Accept", "Accept-Language", "Accept-Charset",
                "Accept-Encoding", "If-Match", "If-None-Match",
                "If-Unmodified-Since", "If-Modified-Since", "Content-Type",
                "Location"}

\* The values req.headers().get::<H>() may return for each header.
HeaderValues(h) ==
    CASE h = "Accept" -> Opt(AcceptHeaders)
      [] h \in {"If-Match", "If-None-Match"} -> Opt(EtagHeaders)
      [] h \in {"If-Unmodified-Since", "If-Modified-Since"} -> Opt(Dates)
      [] h = "Content-Type" -> Opt({TEXT_PLAIN, APPLICATION_JSON})
      [] OTHER -> Opt({"present"})

\* The values a header may turn out to have: the one already read, or any.
Header(h) == IF IsSome(req[h]) THEN {Unwrap(req[h])} ELSE HeaderValues(h)

----------------------------------------------------------------------------
(* Resources: the values each Webmachine callback may return. *)

Callbacks == {"allow_missing_post", "allowed_methods",
              "content_types_accepted", "content_types_provided",
              "delete_completed", "delete_resource", "entity_too_large",
              "forbidden", "generate_etag", "implemented", "is_authorized",
              "is_conflict", "known_content_type", "last_modified",
              "language_available", "malformed_request", "moved_permanently",
              "moved_temporarily", "multiple_choices",
              "patch_content_types_accepted", "previously_existed",
              "process_post", "resource_exists", "service_available",
              "uri_too_long", "valid_content_headers"}

\* Webmachine::allowed_methods: its default, and two overrides.
DefaultAllowedMethods == <<"GET", "HEAD", "OPTIONS">>

AllowedMethodLists == {DefaultAllowedMethods, <<"GET", "HEAD">>, KnownMethods}

\* An entry of content_types_provided: the mime and the body its body_fn
\* produces (Body::empty() is "").
Provided(m, body) == [mime |-> m, body |-> body]

DefaultProvided == <<Provided(TEXT_PLAIN, "")>>

ProvidedLists == {<<>>, DefaultProvided,
                  <<Provided(TEXT_PLAIN, "ok"), Provided(APPLICATION_JSON, "{}")>>}

\* An entry of content_types_accepted: the mime and its action, told from
\* the others by what it returns (the location, for the actions of
\* PostProcessRedirect) or by the name of the fn.
AcceptedType(m, result) == [mime |-> m, result |-> result]

AcceptedLists == {<<>>, <<AcceptedType(APPLICATION_JSON, "()")>>}

\* What content_types_accepted may return: its default, and a list in
\* which two entries have the same mime and another entry comes first.
ContentAcceptedLists ==
    {<<>>, <<AcceptedType(APPLICATION_XML, "()"),
             AcceptedType(APPLICATION_JSON, "()"),
             AcceptedType(APPLICATION_JSON, "again")>>}

RedirectLists == {<<>>, <<AcceptedType(APPLICATION_JSON, "/done")>>}

SegmentLists == {<<>>, <<"a", "b">>}

\* resource.rs PostResponse
PostCreate(segments) == [kind |-> "PostCreate", arg |-> segments]

PostCreateRedirect(segments) == [kind |-> "PostCreateRedirect", arg |-> segments]

PostProcess(accepted) == [kind |-> "PostProcess", arg |-> accepted]

PostProcessRedirect(accepted) == [kind |-> "PostProcessRedirect", arg |-> accepted]

PostResponses ==
    {PostCreate(s) : s \in SegmentLists}
      \cup {PostCreateRedirect(s) : s \in SegmentLists}
      \cup {PostProcess(a) : a \in AcceptedLists}
      \cup {PostProcessRedirect(a) : a \in RedirectLists}

Locations == {"/new"}

CallbackValues(c) ==
    CASE c = "allowed_methods" -> AllowedMethodLists
      [] c = "content_types_provided" -> ProvidedLists
      [] c = "content_types_accepted" -> ContentAcceptedLists
      [] c = "patch_content_types_accepted" -> AcceptedLists
      [] c = "generate_etag" -> Opt({"v1"})
      [] c = "last_modified" -> Opt(Dates)
      [] c \in {"moved_permanently", "moved_temporarily"} -> Opt(Locations)
      [] c = "process_post" -> PostResponses
      [] OTHER -> BOOLEAN

\* The values an invocation of a callback may return.  The resource is
\* invoked anew each time and may answer differently from one invocation to
\* the next (the last_modified of examples/basic.rs reads the clock); where
\* the answer of the next invocation is settled, it is that answer.
Result(c) ==
    IF IsSome(answers[c]) THEN {Unwrap(answers[c])} ELSE CallbackValues(c)

\* resource.rs: what each callback of the Webmachine trait returns unless the
\* resource overrides it.
Default(c) ==
    CASE c = "allowed_methods" -> DefaultAllowedMethods
      [] c = "content_types_provided" -> DefaultProvided
      [] c \in {"content_types_accepted", "patch_content_types_accepted"}
           -> <<>>
      [] c \in {"generate_etag", "last_modified", "moved_permanently",
                "moved_temporarily"} -> None
      [] c = "process_post" -> PostProcess(<<>>)
      [] c \in {"implemented", "is_authorized", "known_content_type",
                "language_available", "resource_exists", "service_available",
                "valid_content_headers"} -> TRUE
      [] OTHER -> FALSE

----------------------------------------------------------------------------
(* hyper::StatusCode, by the numbers the nodes halt with. *)

Ok == 200

Created == 201

Accepted == 202

NoContent == 204

MultipleChoices == 300

MovedPermanently == 301

SeeOther == 303

NotModified == 304

TemporaryRedirect == 307

BadRequest == 400

Unauthorized == 401

Forbidden == 403

NotFound == 404

MethodNotAllowed == 405

NotAcceptable == 406

Conflict == 409

Gone == 410

PreconditionFailed == 412

PayloadTooLarge == 413

UriTooLong == 414

UnsupportedMediaType == 415

InternalServerError == 500

NotImplemented == 501

ServiceUnavailable == 503

----------------------------------------------------------------------------
(* hyper::Response and its headers. *)

NoHeaders == [h \in {} |-> ""]

\* Headers::set: one value per header name, the last one set.
with_header(headers, name, value) ==
    [h \in DOMAIN headers \cup {name} |-> IF h = name THEN value ELSE headers[h]]

\* Response::new(): status 200, no header, no body (body: None).
NewResponse == [status |-> Ok, headers |-> NoHeaders, body |-> None]

has(headers, name) == name \in DOMAIN headers

RECURSIVE join(_, _)
\* [String]::join(sep)
join(strs, sep) ==
    IF strs = <<>> THEN ""
    ELSE IF Len(strs) = 1 THEN strs[1]
    ELSE strs[1] \o sep \o join(Tail(strs), sep)

\* The three headers every halt adds, in the order the halts add them.
with_airship_headers(headers, tr) ==
    with_header(
        with_header(
            with_header(headers, "Server", "hyper/0.11.27"),
            "Airship-Trace", join(tr, ",")),
        "Airship-Quip", "blame me if inappropriate")

----------------------------------------------------------------------------
(* types.rs: the per-request state. *)

\* trace, had it put the label in front.
trace_prepend(tr, t) == <<t>> \o tr

\* trace(state, t): push the label.
trace(tr, t) == Append(tr, t)

\* set_response_header: sets the header on state.response when it is Some.
set_response_header(resp, name, value) ==
    IF IsSome(resp)
      THEN Some([Unwrap(resp) EXCEPT !.headers = with_header(@, name, value)])
      ELSE resp

\* set_response_body: sets the body on state.response when it is Some.
set_response_body(resp, body) ==
    IF IsSome(resp) THEN Some([Unwrap(resp) EXCEPT !.body = Some(body)]) ELSE resp

\* is_response_empty: true only for a response whose body is set and empty.
is_response_empty(resp) ==
    IF IsSome(resp)
      THEN IF IsSome(Unwrap(resp).body) THEN Unwrap(Unwrap(resp).body) = "" ELSE FALSE
      ELSE FALSE

\* get_response: state.response.take().unwrap_or_else(Response::new)
get_response(resp) == IF IsSome(resp) THEN Unwrap(resp) ELSE NewResponse

----------------------------------------------------------------------------
(* decision.rs: the three ways to halt.  tr is the trace at the halt. *)

\* halt: a fresh response with the status and the three headers.
halt(status_code, tr) ==
    [status |-> status_code,
     headers |-> with_airship_headers(NoHeaders, tr),
     body |-> None]

\* halt_with_response, had it answered with a fresh response as halt does.
halt_with_response_fresh(status_code, resp, tr) ==
    [status |-> status_code,
     headers |-> with_airship_headers(NoHeaders, tr),
     body |-> None]

\* halt_with_response: the response under construction, finished.
halt_with_response(status_code, resp, tr) ==
    [status |-> status_code,
     headers |-> with_airship_headers(get_response(resp).headers, tr),
     body |-> get_response(resp).body]

\* halt_with_header, had it left out hdr.
halt_with_header_dropped(status_code, name, value, tr) ==
    [status |-> status_code,
     headers |-> with_airship_headers(NoHeaders, tr),
     body |-> None]

\* halt_with_header: a fresh response with the status, hdr, and the three.
halt_with_header(status_code, name, value, tr) ==
    [status |-> status_code,
     headers |-> with_airship_headers(with_header(NoHeaders, name, value), tr),
     body |-> None]

\* hyper's Allow header prints its methods comma-delimited.
Allow(methods) == join(methods, ", ")

----------------------------------------------------------------------------
(* Strings, as route.rs uses them.  A string is a sequence of characters;    *)
(* a character is a string of length one.                                    *)

char(s, i) == SubSeq(s, i, i)

\* s with its first n characters dropped.
drop(s, n) == SubSeq(s, n + 1, Len(s))

starts_with(s, prefix) ==
    Len(prefix) <= Len(s) /\ SubSeq(s, 1, Len(prefix)) = prefix

ends_with(s, suffix) ==
    Len(suffix) <= Len(s) /\ drop(s, Len(s) - Len(suffix)) = suffix

\* str::find: the offset of the first occurrence of pat in s, or None.
RECURSIVE find_from(_, _, _)
find_from(s, pat, i) ==
    IF i + Len(pat) > Len(s) THEN None
    ELSE IF SubSeq(s, i + 1, i + Len(pat)) = pat THEN Some(i)
    ELSE find_from(s, pat, i + 1)

find(s, pat) == find_from(s, pat, 0)

\* str::split: the pieces of s between the occurrences of pat.
RECURSIVE split(_, _)
split(s, pat) ==
    LET at == find(s, pat)
    IN  IF IsSome(at)
          THEN <<SubSeq(s, 1, Unwrap(at))>>
                 \o split(drop(s, Unwrap(at) + Len(pat)), pat)
          ELSE <<s>>

\* str::trim_start_matches and trim_end_matches for a set of characters.
RECURSIVE trim_start_matches(_, _)
trim_start_matches(s, chars) ==
    IF Len(s) > 0 /\ char(s, 1) \in chars
      THEN trim_start_matches(drop(s, 1), chars)
      ELSE s

RECURSIVE trim_end_matches(_, _)
trim_end_matches(s, chars) ==
    IF Len(s) > 0 /\ char(s, Len(s)) \in chars
      THEN trim_end_matches(SubSeq(s, 1, Len(s) - 1), chars)
      ELSE s

trim_matches(s, chars) == trim_end_matches(trim_start_matches(s, chars), chars)

\* char::is_whitespace, the Unicode property White_Space, on the characters
\* a string of the model can hold: U+0009 to U+000D (tab, line feed,
\* vertical tab, form feed, carriage return), space, U+0085 (next line),
\* U+00A0 (no-break space) and U+1680 (ogham space mark).  The vertical
\* tab and the last three have no escape and stand in the set as
\* themselves.  The rest of White_Space (U+2000 to U+200A, U+2028, U+2029,
\* U+202F, U+205F, U+3000) cannot occur in a string of the model.
WhiteSpace ==
    {"\t", "\n", "", "\f", "\r", " ", "", " ", " "}

\* str::trim: leading and trailing white space removed.
trim(s) == trim_matches(s, WhiteSpace)

\* trim_start_matches(|m| m != '/'): s from its first '/' on.
RECURSIVE trim_start_until_slash(_)
trim_start_until_slash(s) ==
    IF Len(s) > 0 /\ char(s, 1) # "/"
      THEN trim_start_until_slash(drop(s, 1))
      ELSE s

\* The byte a character is encoded as (ASCII), for the characters paths,
\* templates and base64 text are made of.
Digits == "0123456789"

UpperCase == "ABCDEFGHIJKLMNOPQRSTUVWXYZ"

LowerCase == "abcdefghijklmnopqrstuvwxyz"

index_in(s, c) == CHOOSE i \in 1..Len(s) : char(s, i) = c

contains(s, c) == \E i \in 1..Len(s) : char(s, i) = c

as_byte(c) ==
    IF contains(Digits, c) THEN 47 + index_in(Digits, c)
    ELSE IF contains(UpperCase, c) THEN 64 + index_in(UpperCase, c)
    ELSE IF contains(LowerCase, c) THEN 96 + index_in(LowerCase, c)
    ELSE CASE c = "*" -> 42 [] c = "+" -> 43 [] c = "-" -> 45 [] c = "." -> 46
           [] c = "/" -> 47 [] c = ":" -> 58 [] c = "=" -> 61 [] c = "_" -> 95

\* The alphabet of the standard base64 encoding.
Base64Alphabet ==
    "ABCDEFGHIJKLMNOPQRSTUVWXYZabcdefghijklmnopqrstuvwxyz0123456789+/"

sextet(n) == char(Base64Alphabet, (n % 64) + 1)

\* base64::encode: three bytes become four characters, the last group is
\* padded with '='.
RECURSIVE base64_encode(_)
base64_encode(s) ==
    IF Len(s) = 0 THEN ""
    ELSE IF Len(s) = 1
      THEN LET n == as_byte(char(s, 1)) * 65536
           IN  sextet(n \div 262144) \o sextet(n \div 4096) \o "=="
    ELSE IF Len(s) = 2
      THEN LET n == as_byte(char(s, 1)) * 65536 + as_byte(char(s, 2)) * 256
           IN  sextet(n \div 262144) \o sextet(n \div 4096)
                 \o sextet(n \div 64) \o "="
    ELSE LET n == as_byte(char(s, 1)) * 65536 + as_byte(char(s, 2)) * 256
                    + as_byte(char(s, 3))
         IN  sextet(n \div 262144) \o sextet(n \div 4096)
               \o sextet(n \div 64) \o sextet(n)
               \o base64_encode(drop(s, 3))

----------------------------------------------------------------------------
(* route.rs: routes and the routing trie *)

Bound(t) == [kind |-> "Bound", text |-> t]

Var(t) == [kind |-> "Var", text |-> t]

RestUnbound == [kind |-> "RestUnbound", text |-> ""]

\* Route::from(&str): the template is split at "</>", each part trimmed;
\* ::name:: is a variable, * the rest of the path, anything else a literal.
Route_part(part) ==
    IF starts_with(part, "::") /\ ends_with(part, "::")
      THEN Var(trim_matches(part, {":"}))
    ELSE IF part = "*" THEN RestUnbound
    ELSE Bound(part)

Route_from(route_str) ==
    LET parts == split(route_str, "</>")
    IN  [i \in DOMAIN parts |-> Route_part(trim(parts[i]))]

\* RoutedResource(route, resource)
RoutedResource(route, resource) == [route |-> route, resource |-> resource]

\* RouteLeaf
RouteMatch(res, var_names) ==
    [kind |-> "RouteMatch", res |-> Some(res), vars |-> var_names]

RVar == [kind |-> "RVar", res |-> None, vars |-> <<>>]

RouteMatchOrVar(res, var_names) ==
    [kind |-> "RouteMatchOrVar", res |-> Some(res), vars |-> var_names]

Wildcard(res) == [kind |-> "Wildcard", res |-> Some(res), vars |-> <<>>]

\* route_fold_fun: a literal extends the key; a variable leaves an RVar at
\* the key and continues under base64(key ++ "var"); from `*` on, nothing
\* more is folded.
route_fold_fun(fold_acc, bou) ==
    IF ~fold_acc[4]
      THEN CASE bou.kind = "Bound" ->
                  <<fold_acc[1] \o "/" \o bou.text, fold_acc[2], fold_acc[3], FALSE>>
             [] bou.kind = "Var" ->
                  <<base64_encode(fold_acc[1] \o "var"),
                    Append(fold_acc[2], <<fold_acc[1], RVar>>),
                    Append(fold_acc[3], bou.text),
                    FALSE>>
             [] bou.kind = "RestUnbound" ->
                  <<fold_acc[1], fold_acc[2], fold_acc[3], TRUE>>
      ELSE <<fold_acc[1], fold_acc[2], fold_acc[3], TRUE>>

\* Iterator::fold
RECURSIVE fold(_, _, _, _)
fold(f(_, _), acc, items, i) ==
    IF i > Len(items) THEN acc ELSE fold(f, f(acc, items[i]), items, i + 1)

\* route_leaves: the <<key, leaf>> pairs of one route, its terminal leaf last.
route_leaves(route_pair) ==
    LET route == route_pair[1]
        resource == route_pair[2]
        fold_res == fold(route_fold_fun, <<"", <<>>, <<>>, FALSE>>, route, 1)
        final_key == IF fold_res[1] = "" THEN "/" ELSE fold_res[1]
        final_leaf == IF fold_res[4]
                        THEN Wildcard(RoutedResource(route, resource))
                        ELSE RouteMatch(RoutedResource(route, resource),
                                        fold_res[3])
    IN  Append(fold_res[2], <<final_key, final_leaf>>)

\* merge_values(l1, l2): l1 is the leaf the trie holds, l2 the one inserted.
\* merge_values, had a leaf that is already an RVar stayed one when a
\* RouteMatch arrives at its key.
merge_values_keeps_rvar(l1, l2) ==
    CASE l1.kind = "Wildcard" -> l1
      [] l1.kind # "Wildcard" /\ l2.kind = "Wildcard" -> l2
      [] l1.kind = "RVar" -> RVar
      [] l1.kind = "RouteMatch" /\ l2.kind = "RouteMatch" -> l2
      [] l1.kind = "RouteMatch" /\ l2.kind = "RVar" ->
           RouteMatchOrVar(Unwrap(l1.res), l1.vars)
      [] l1.kind = "RouteMatchOrVar" /\ l2.kind = "RouteMatch" ->
           RouteMatchOrVar(Unwrap(l2.res), l2.vars)
      [] OTHER -> l1

\* merge_values, had a Wildcard the trie holds given way to the leaf that
\* arrives at its key.
merge_values_newest_leaf(l1, l2) ==
    CASE l1.kind = "Wildcard" -> l2
      [] l1.kind # "Wildcard" /\ l2.kind = "Wildcard" -> l2
      [] l1.kind = "RVar" /\ l2.kind = "RVar" -> RVar
      [] l1.kind = "RVar" /\ l2.kind = "RouteMatch" ->
           RouteMatchOrVar(Unwrap(l2.res), l2.vars)
      [] l1.kind = "RouteMatch" /\ l2.kind = "RouteMatch" -> l2
      [] l1.kind = "RouteMatch" /\ l2.kind = "RVar" ->
           RouteMatchOrVar(Unwrap(l1.res), l1.vars)
      [] l1.kind = "RouteMatchOrVar" /\ l2.kind = "RouteMatch" ->
           RouteMatchOrVar(Unwrap(l2.res), l2.vars)
      [] l1.kind = "RouteMatchOrVar" /\ l2.kind \in {"RVar", "RouteMatchOrVar"} ->
           l1
      [] OTHER -> l2

merge_values(l1, l2) ==
    CASE l1.kind = "Wildcard" -> l1
      [] l1.kind # "Wildcard" /\ l2.kind = "Wildcard" -> l2
      [] l1.kind = "RVar" /\ l2.kind = "RVar" -> RVar
      [] l1.kind = "RVar" /\ l2.kind = "RouteMatch" ->
           RouteMatchOrVar(Unwrap(l2.res), l2.vars)
      [] l1.kind = "RouteMatch" /\ l2.kind = "RouteMatch" -> l2
      [] l1.kind = "RouteMatch" /\ l2.kind = "RVar" ->
           RouteMatchOrVar(Unwrap(l1.res), l1.vars)
      [] l1.kind = "RouteMatchOrVar" /\ l2.kind = "RouteMatch" ->
           RouteMatchOrVar(Unwrap(l2.res), l2.vars)
      [] l1.kind = "RouteMatchOrVar" /\ l2.kind \in {"RVar", "RouteMatchOrVar"} ->
           l1
      [] OTHER -> l2

\* A Trie<String, RouteLeaf> is the function from its keys to their leaves.
Trie_new == [key \in {} |-> RVar]

Trie_insert(t, key, value) ==
    [k \in DOMAIN t \cup {key} |-> IF k = key THEN value ELSE t[k]]

\* insert_or_replace: a key the trie already holds gets the merged leaf.
insert_or_replace(t, kv) ==
    IF kv[1] \in DOMAIN t
      THEN Trie_insert(t, kv[1], merge_values(t[kv[1]], kv[2]))
      ELSE Trie_insert(t, kv[1], kv[2])

to_trie(leaves) == fold(insert_or_replace, Trie_new, leaves, 1)

\* Iterator::flat_map(route_leaves)
RECURSIVE flat_map_route_leaves(_, _)
flat_map_route_leaves(routes, i) ==
    IF i > Len(routes) THEN <<>>
    ELSE route_leaves(routes[i]) \o flat_map_route_leaves(routes, i + 1)

\* RoutingTrie::from(RoutingSpec): each template is parsed and the leaves of
\* all routes, in registration order, are folded into the trie.
RoutingTrie_from(spec) ==
    LET routes == [i \in DOMAIN spec |-> <<Route_from(spec[i][1]), spec[i][2]>>]
    IN  to_trie(flat_map_route_leaves(routes, 1))

----------------------------------------------------------------------------
(* route.rs: lookup *)

\* Trie::prefix_match: the longest key of the trie that is a prefix of s,
\* with its leaf and the rest of s; None when no key is a prefix of s.
prefix_match(t, s) ==
    LET prefixes == {k \in DOMAIN t : starts_with(s, k)}
    IN  IF prefixes = {} THEN None
        ELSE LET key == CHOOSE k \in prefixes :
                          \A other \in prefixes : Len(other) <= Len(k)
             IN  Some(<<key, t[key], drop(s, Len(key))>>)

\* dispatch_list: without a dispatch the list holds the empty string.
dispatch_list(dispatch, matched) ==
    LET upd_dispatch == IF IsSome(dispatch) THEN Unwrap(dispatch) \o matched
                        ELSE ""
    IN  split(upd_dispatch, "/")

\* vars.iter().zip(params.iter()) inserted into a HashMap one by one: a
\* name that occurs twice keeps its last value.
params_map(var_names, params) ==
    LET n == IF Len(var_names) < Len(params) THEN Len(var_names) ELSE Len(params)
        last(v) == CHOOSE i \in 1..n :
                     var_names[i] = v /\ \A j \in 1..n : var_names[j] = v => j <= i
    IN  [v \in {var_names[i] : i \in 1..n} |-> params[last(v)]]

\* What route hands back: the routed resource, the params and the dispatch path.
Routed(res, params, dispatch) ==
    [res |-> res, params |-> params, dispatch |-> dispatch]

Returns(result) == [recurse |-> None, result |-> result]

Recurses(next_key, params, dispatch) ==
    [recurse |-> Some([key |-> next_key, params |-> params, dispatch |-> dispatch]),
     result |-> None]

\* match_route_arm, had the Wildcard arm handed back the values consumed
\* for the variables before the `*`.
match_route_arm_keeping_values(matched, params, dispatch) ==
    IF ~IsSome(matched) THEN Returns(None)
    ELSE LET matched_prefix == Unwrap(matched)[1]
             leaf == Unwrap(matched)[2]
             rest == Unwrap(matched)[3]
         IN  IF leaf.kind \in {"RouteMatchOrVar", "RouteMatch"} /\ rest = ""
               THEN Returns(Some(Routed(Unwrap(leaf.res),
                                        params_map(leaf.vars, params),
                                        dispatch_list(dispatch, matched_prefix))))
             ELSE IF leaf.kind \in {"RouteMatch", "RouteMatchOrVar"}
               THEN Returns(None)
             ELSE IF leaf.kind = "RVar" /\ rest = "" THEN Returns(None)
             ELSE IF leaf.kind = "RVar" /\ starts_with(rest, "//")
               THEN Returns(None)
             ELSE IF leaf.kind = "RVar" /\ starts_with(rest, "/")
               THEN LET encoded_match == base64_encode(matched_prefix \o "var")
                        trimmed_rest == trim_start_matches(rest, {"/"})
                        next_key == encoded_match
                                      \o trim_start_until_slash(trimmed_rest)
                        at == find(trimmed_rest, "/")
                        slash_offset == IF IsSome(at) THEN Unwrap(at)
                                        ELSE Len(trimmed_rest)
                        param_val == SubSeq(trimmed_rest, 1, slash_offset)
                    IN  Recurses(next_key, Append(params, param_val),
                                 IF IsSome(dispatch) THEN dispatch ELSE Some(""))
             ELSE IF leaf.kind = "RVar" THEN Returns(None)
             ELSE Returns(Some(Routed(Unwrap(leaf.res), params,
                                      <<trim_start_matches(rest, {"/"})>>)))

\* One call of match_route, up to its return or its recursive call.
match_route_arm(matched, params, dispatch) ==
    IF ~IsSome(matched) THEN Returns(None)
    ELSE LET matched_prefix == Unwrap(matched)[1]
             leaf == Unwrap(matched)[2]
             rest == Unwrap(matched)[3]
         IN  IF leaf.kind \in {"RouteMatchOrVar", "RouteMatch"} /\ rest = ""
               THEN Returns(Some(Routed(Unwrap(leaf.res),
                                        params_map(leaf.vars, params),
                                        dispatch_list(dispatch, matched_prefix))))
             ELSE IF leaf.kind \in {"RouteMatch", "RouteMatchOrVar"}
               THEN Returns(None)
             ELSE IF leaf.kind = "RVar" /\ rest = "" THEN Returns(None)
             ELSE IF leaf.kind = "RVar" /\ starts_with(rest, "//")
               THEN Returns(None)
             ELSE IF leaf.kind = "RVar" /\ starts_with(rest, "/")
               THEN LET encoded_match == base64_encode(matched_prefix \o "var")
                        trimmed_rest == trim_start_matches(rest, {"/"})
                        next_key == encoded_match
                                      \o trim_start_until_slash(trimmed_rest)
                        at == find(trimmed_rest, "/")
                        slash_offset == IF IsSome(at) THEN Unwrap(at)
                                        ELSE Len(trimmed_rest)
                        param_val == SubSeq(trimmed_rest, 1, slash_offset)
                    IN  Recurses(next_key, Append(params, param_val),
                                 IF IsSome(dispatch) THEN dispatch ELSE Some(""))
             ELSE IF leaf.kind = "RVar" THEN Returns(None)
             ELSE Returns(Some(Routed(Unwrap(leaf.res), <<>>,
                                      <<trim_start_matches(rest, {"/"})>>)))

RECURSIVE match_route(_, _, _, _)
match_route(routes, matched, params, dispatch) ==
    LET arm == match_route_arm(matched, params, dispatch)
    IN  IF IsSome(arm.recurse)
          THEN LET next == Unwrap(arm.recurse)
               IN  match_route(routes, prefix_match(routes, next.key),
                               next.params, next.dispatch)
          ELSE arm.result

\* route: the lookup of a request path.
route(routes, path_info) ==
    match_route(routes, prefix_match(routes, path_info), <<>>, None)

----------------------------------------------------------------------------
(* How a node reads the request, consults the resource, and leaves. *)

\* The node is about to run: no response has been returned yet.
At(label) == node = label /\ final = None

\* The node reads header h and finds v.
Reads(h, v) == req' = [req EXCEPT ![h] = Some(v)]

\* The node invokes each callback of the set S of <<callback, result>> once.
Invokes(S) ==
    /\ cb' = [c \in Callbacks |->
                IF \E p \in S : p[1] = c
                  THEN Some((CHOOSE p \in S : p[1] = c)[2])
                  ELSE cb[c]]
    /\ calls' = [c \in Callbacks |->
                   IF \E p \in S : p[1] = c THEN calls[c] + 1 ELSE calls[c]]

\* The node traces its label and tail-calls the node next.
Goto(label, next) ==
    /\ decision_trace' = trace(decision_trace, label)
    /\ node' = next
    /\ final' = final
    /\ UNCHANGED beside_request

\* The node traces its label and returns the response resp.
Return(label, resp) ==
    /\ decision_trace' = trace(decision_trace, label)
    /\ node' = label
    /\ final' = Some(resp)
    /\ UNCHANGED beside_request

\* The trace a node sees after tracing its own label.
Traced(label) == trace(decision_trace, label)

----------------------------------------------------------------------------
(* server.rs: Airship::call *)

\* route::route finds a resource for the request path or not; with a
\* resource the traversal starts at b13 on a fresh RequestState, without one
\* the shim answers 404 itself.
call ==
    /\ node = "call"
    /\ final = None
    /\ IF IsSome(route(airship_routes, path))
         THEN /\ node' = "b13"
              /\ final' = final
         ELSE /\ node' = "call"
              /\ final' = Some([NewResponse EXCEPT !.status = NotFound])
    /\ UNCHANGED <<method, path, req, cb, calls, decision_trace, response,
                   matched_content_type, request_time, actions_run>>
    /\ UNCHANGED beside_request

----------------------------------------------------------------------------
(* decision.rs, B column *)

\* b13, had it taken the two branches the other way round.
b13_swapped ==
    /\ At("b13")
    /\ \E available \in Result("service_available") :
         /\ Invokes({<<"service_available", available>>})
         /\ IF available
              THEN Return("b13", halt(ServiceUnavailable, Traced("b13")))
              ELSE Goto("b13", "b12")
    /\ UNCHANGED <<method, path, req, response, matched_content_type,
                   request_time, actions_run>>

b13 ==
    /\ At("b13")
    /\ \E available \in Result("service_available") :
         /\ Invokes({<<"service_available", available>>})
         /\ IF available
              THEN Goto("b13", "b12")
              ELSE Return("b13", halt(ServiceUnavailable, Traced("b13")))
    /\ UNCHANGED <<method, path, req, response, matched_content_type, request_time,
                   actions_run>>

b12 ==
    /\ At("b12")
    /\ IF \E i \in DOMAIN KnownMethods : KnownMethods[i] = method
         THEN Goto("b12", "b11")
         ELSE Return("b12", halt(NotImplemented, Traced("b12")))
    /\ UNCHANGED <<method, path, req, cb, calls, response, matched_content_type,
                   request_time, actions_run>>

\* b11, had it handed a URI of acceptable length to b09, past b10.
b11_past_b10 ==
    /\ At("b11")
    /\ \E too_long \in Result("uri_too_long") :
         /\ Invokes({<<"uri_too_long", too_long>>})
         /\ IF too_long
              THEN Return("b11", halt(UriTooLong, Traced("b11")))
              ELSE Goto("b11", "b09")
    /\ UNCHANGED <<method, path, req, response, matched_content_type, request_time,
                   actions_run>>

b11 ==
    /\ At("b11")
    /\ \E too_long \in Result("uri_too_long") :
         /\ Invokes({<<"uri_too_long", too_long>>})
         /\ IF too_long
              THEN Return("b11", halt(UriTooLong, Traced("b11")))
              ELSE Goto("b11", "b10")
    /\ UNCHANGED <<method, path, req, response, matched_content_type, request_time,
                   actions_run>>

b10 ==
    /\ At("b10")
    /\ \E allowed_methods \in Result("allowed_methods") :
         /\ Invokes({<<"allowed_methods", allowed_methods>>})
         /\ IF \E i \in DOMAIN allowed_methods : allowed_methods[i] = method
              THEN Goto("b10", "b09")
              ELSE Return("b10", halt_with_header(MethodNotAllowed, "Allow",
                                     Allow(allowed_methods), Traced("b10")))
    /\ UNCHANGED <<method, path, req, response, matched_content_type, request_time,
                   actions_run>>

b09 ==
    /\ At("b09")
    /\ \E malformed \in Result("malformed_request") :
         /\ Invokes({<<"malformed_request", malformed>>})
         /\ IF malformed
              THEN Return("b09", halt(BadRequest, Traced("b09")))
              ELSE Goto("b09", "b08")
    /\ UNCHANGED <<method, path, req, response, matched_content_type, request_time,
                   actions_run>>

b08 ==
    /\ At("b08")
    /\ \E authorized \in Result("is_authorized") :
         /\ Invokes({<<"is_authorized", authorized>>})
         /\ IF authorized
              THEN Goto("b08", "b07")
              ELSE Return("b08", halt(Unauthorized, Traced("b08")))
    /\ UNCHANGED <<method, path, req, response, matched_content_type, request_time,
                   actions_run>>

b07 ==
    /\ At("b07")
    /\ \E forbidden \in Result("forbidden") :
         /\ Invokes({<<"forbidden", forbidden>>})
         /\ IF forbidden
              THEN Return("b07", halt(Forbidden, Traced("b07")))
              ELSE Goto("b07", "b06")
    /\ UNCHANGED <<method, path, req, response, matched_content_type, request_time,
                   actions_run>>

b06 ==
    /\ At("b06")
    /\ \E valid \in Result("valid_content_headers") :
         /\ Invokes({<<"valid_content_headers", valid>>})
         /\ IF valid
              THEN Goto("b06", "b05")
              ELSE Return("b06", halt(NotImplemented, Traced("b06")))
    /\ UNCHANGED <<method, path, req, response, matched_content_type, request_time,
                   actions_run>>

b05 ==
    /\ At("b05")
    /\ \E known \in Result("known_content_type") :
         /\ Invokes({<<"known_content_type", known>>})
         /\ IF known
              THEN Goto("b05", "b04")
              ELSE Return("b05", halt(UnsupportedMediaType, Traced("b05")))
    /\ UNCHANGED <<method, path, req, response, matched_content_type, request_time,
                   actions_run>>

b04 ==
    /\ At("b04")
    /\ \E too_large \in Result("entity_too_large") :
         /\ Invokes({<<"entity_too_large", too_large>>})
         /\ IF too_large
              THEN Return("b04", halt(PayloadTooLarge, Traced("b04")))
              ELSE Goto("b04", "b03")
    /\ UNCHANGED <<method, path, req, response, matched_content_type, request_time,
                   actions_run>>

\* b03, had it sent OPTIONS on to c03 like every other method.
b03_no_options ==
    /\ At("b03")
    /\ Goto("b03", "c03")
    /\ UNCHANGED <<method, path, req, cb, calls, response,
                   matched_content_type, request_time, actions_run>>

b03 ==
    /\ At("b03")
    /\ IF method = "OPTIONS"
         THEN \E allowed_methods \in Result("allowed_methods") :
                /\ Invokes({<<"allowed_methods", allowed_methods>>})
                /\ Return("b03", halt_with_header(NoContent, "Allow",
                                     Allow(allowed_methods), Traced("b03")))
         ELSE /\ Goto("b03", "c03")
              /\ UNCHANGED <<cb, calls>>
    /\ UNCHANGED <<method, path, req, response, matched_content_type, request_time,
                   actions_run>>

----------------------------------------------------------------------------
(* decision.rs, content negotiation helpers *)

\* accept_matches, had it taken an equal quality for a better one.
accept_matches_or_equal(a_hdr, ct_hdr, match_quality) ==
    \/ (a_hdr.item = STAR_STAR /\ a_hdr.quality >= match_quality)
    \/ (/\ a_hdr.item.type = ct_hdr.type
        /\ a_hdr.quality >= match_quality
        /\ (\/ a_hdr.item.subtype = ct_hdr.subtype
            \/ a_hdr.item.subtype = STAR))

\* accept_matches, had it compared the qualities only.
accept_matches_any(a_hdr, ct_hdr, match_quality) == a_hdr.quality > match_quality

\* The test map_accept_media applies to one Accept item and one provided
\* mime, given the best quality found so far.
accept_matches(a_hdr, ct_hdr, match_quality) ==
    \/ (a_hdr.item = STAR_STAR /\ a_hdr.quality > match_quality)
    \/ (/\ a_hdr.item.type = ct_hdr.type
        /\ a_hdr.quality > match_quality
        /\ (\/ a_hdr.item.subtype = ct_hdr.subtype
            \/ a_hdr.item.subtype = STAR))

RECURSIVE provided_loop(_, _, _, _)
\* The inner loop of map_accept_media over provided[j..], for one Accept
\* item; acc is (type_match, match_quality).
provided_loop(provided, j, a_hdr, acc) ==
    IF j > Len(provided) THEN acc
    ELSE IF accept_matches(a_hdr, provided[j].mime, acc.match_quality)
      THEN provided_loop(provided, j + 1, a_hdr,
                         [type_match |-> Some(provided[j]),
                          match_quality |-> a_hdr.quality])
      ELSE provided_loop(provided, j + 1, a_hdr, acc)

RECURSIVE accept_loop(_, _, _, _)
\* The outer loop of map_accept_media over accept[i..]; it breaks at the
\* first item of quality zero.
accept_loop(provided, accept, i, acc) ==
    IF i > Len(accept) THEN acc
    ELSE IF accept[i].quality = q(0) THEN acc
    ELSE accept_loop(provided, accept, i + 1,
                     provided_loop(provided, 1, accept[i], acc))

map_accept_media(provided, accept) ==
    accept_loop(provided, accept, 1,
                [type_match |-> None, match_quality |-> q(0)]).type_match

\* map_content_media, had it not left the loop at the first equal entry:
\* the last equal entry wins.
map_content_media_last(provided, content_type) ==
    LET equal == {j \in DOMAIN provided : provided[j].mime = content_type}
    IN  IF equal = {}
          THEN None
          ELSE Some(provided[CHOOSE j \in equal : \A k \in equal : k <= j])

RECURSIVE content_loop(_, _, _)
\* The loop of map_content_media over provided[j..]: the first entry whose
\* mime equals the Content-Type.
content_loop(provided, j, content_type) ==
    IF j > Len(provided) THEN None
    ELSE IF provided[j].mime = content_type THEN Some(provided[j])
    ELSE content_loop(provided, j + 1, content_type)

map_content_media(provided, content_type) == content_loop(provided, 1, content_type)

----------------------------------------------------------------------------
(* decision.rs, C to F columns *)

c04 ==
    /\ At("c04")
    /\ \E provided \in Result("content_types_provided") :
         /\ Invokes({<<"content_types_provided", provided>>})
         /\ LET result == map_accept_media(provided, Unwrap(Unwrap(req["Accept"])))
            IN  IF IsSome(result)
                  THEN /\ matched_content_type' = result
                       /\ Goto("c04", "d04")
                  ELSE /\ matched_content_type' = matched_content_type
                       /\ Return("c04", halt(NotAcceptable, Traced("c04")))
    /\ UNCHANGED <<method, path, req, response, request_time, actions_run>>

c03 ==
    /\ At("c03")
    /\ \E ahdr \in Header("Accept") :
         /\ Reads("Accept", ahdr)
         /\ IF IsSome(ahdr) THEN Goto("c03", "c04") ELSE Goto("c03", "d04")
    /\ UNCHANGED <<method, path, cb, calls, response, matched_content_type,
                   request_time, actions_run>>

d05 ==
    /\ At("d05")
    /\ \E available \in Result("language_available") :
         /\ Invokes({<<"language_available", available>>})
         /\ IF available
              THEN Goto("d05", "e05")
              ELSE Return("d05", halt(NotAcceptable, Traced("d05")))
    /\ UNCHANGED <<method, path, req, response, matched_content_type, request_time,
                   actions_run>>

d04 ==
    /\ At("d04")
    /\ \E alhdr \in Header("Accept-Language") :
         /\ Reads("Accept-Language", alhdr)
         /\ IF IsSome(alhdr) THEN Goto("d04", "d05") ELSE Goto("d04", "e05")
    /\ UNCHANGED <<method, path, cb, calls, response, matched_content_type,
                   request_time, actions_run>>

e06 ==
    /\ At("e06")
    /\ Goto("e06", "f06")
    /\ UNCHANGED <<method, path, req, cb, calls, response, matched_content_type,
                   request_time, actions_run>>

e05 ==
    /\ At("e05")
    /\ \E achdr \in Header("Accept-Charset") :
         /\ Reads("Accept-Charset", achdr)
         /\ IF IsSome(achdr) THEN Goto("e05", "e06") ELSE Goto("e05", "f06")
    /\ UNCHANGED <<method, path, cb, calls, response, matched_content_type,
                   request_time, actions_run>>

\* The number of visits of a node so far.
Visits(label) == Cardinality({i \in DOMAIN decision_trace : decision_trace[i] = label})

\* f07 tail-calls f06, which reads Accept-Encoding again and calls f07 again.
f07 ==
    /\ At("f07")
    /\ Visits("f07") < MaxEncodingVisits
    /\ Goto("f07", "f06")
    /\ UNCHANGED <<method, path, req, cb, calls, response, matched_content_type,
                   request_time, actions_run>>

f06 ==
    /\ At("f06")
    /\ \E aehdr \in Header("Accept-Encoding") :
         /\ Reads("Accept-Encoding", aehdr)
         /\ IF IsSome(aehdr) THEN Goto("f06", "f07") ELSE Goto("f06", "g07")
    /\ UNCHANGED <<method, path, cb, calls, response, matched_content_type,
                   request_time, actions_run>>

----------------------------------------------------------------------------
(* decision.rs, G column *)

\* g11, had it let the empty tag list pass.
g11_empty_passes ==
    /\ At("g11")
    /\ Goto("g11", "h10")
    /\ UNCHANGED <<method, path, req, cb, calls, response, matched_content_type,
                   request_time, actions_run>>

g11 ==
    /\ At("g11")
    /\ IF Unwrap(Unwrap(req["If-Match"])).etags = <<>>
         THEN Return("g11", halt(PreconditionFailed, Traced("g11")))
         ELSE Goto("g11", "h10")
    /\ UNCHANGED <<method, path, req, cb, calls, response, matched_content_type,
                   request_time, actions_run>>

g09 ==
    /\ At("g09")
    /\ IF Unwrap(Unwrap(req["If-Match"])) = Any
         THEN Goto("g09", "h10")
         ELSE Goto("g09", "g11")
    /\ UNCHANGED <<method, path, req, cb, calls, response, matched_content_type,
                   request_time, actions_run>>

g08 ==
    /\ At("g08")
    /\ \E imhdr \in Header("If-Match") :
         /\ Reads("If-Match", imhdr)
         /\ IF IsSome(imhdr) THEN Goto("g08", "g09") ELSE Goto("g08", "h10")
    /\ UNCHANGED <<method, path, cb, calls, response, matched_content_type,
                   request_time, actions_run>>

g07 ==
    /\ At("g07")
    /\ \E exists \in Result("resource_exists") :
         /\ Invokes({<<"resource_exists", exists>>})
         /\ IF exists THEN Goto("g07", "g08") ELSE Goto("g07", "h07")
    /\ UNCHANGED <<method, path, req, response, matched_content_type, request_time,
                   actions_run>>

----------------------------------------------------------------------------
(* decision.rs, H column *)

h12 ==
    /\ At("h12")
    /\ \E m_if_unmod_since \in Header("If-Unmodified-Since") :
       \E m_last_modified \in Result("last_modified") :
         /\ Reads("If-Unmodified-Since", m_if_unmod_since)
         /\ Invokes({<<"last_modified", m_last_modified>>})
         /\ IF /\ IsSome(m_if_unmod_since)
               /\ IsSome(m_last_modified)
               /\ Unwrap(m_last_modified) > Unwrap(m_if_unmod_since)
              THEN Return("h12", halt(PreconditionFailed, Traced("h12")))
              ELSE Goto("h12", "i12")
    /\ UNCHANGED <<method, path, response, matched_content_type, request_time,
                   actions_run>>

\* valid_date is the constant true in the source.
h11 ==
    /\ At("h11")
    /\ LET valid_date == TRUE
       IN  IF valid_date THEN Goto("h11", "h12") ELSE Goto("h11", "i12")
    /\ UNCHANGED <<method, path, req, cb, calls, response, matched_content_type,
                   request_time, actions_run>>

h10 ==
    /\ At("h10")
    /\ \E iushdr \in Header("If-Unmodified-Since") :
         /\ Reads("If-Unmodified-Since", iushdr)
         /\ IF IsSome(iushdr) THEN Goto("h10", "h11") ELSE Goto("h10", "i12")
    /\ UNCHANGED <<method, path, cb, calls, response, matched_content_type,
                   request_time, actions_run>>

h07 ==
    /\ At("h07")
    /\ \E imhdr \in Header("If-Match") :
         /\ Reads("If-Match", imhdr)
         /\ IF imhdr = Some(Any)
              THEN Return("h07", halt(PreconditionFailed, Traced("h07")))
              ELSE Goto("h07", "i07")
    /\ UNCHANGED <<method, path, cb, calls, response, matched_content_type,
                   request_time, actions_run>>

----------------------------------------------------------------------------
(* decision.rs, I to L columns *)

i13 ==
    /\ At("i13")
    /\ IF Unwrap(Unwrap(req["If-None-Match"])) = Any
         THEN Goto("i13", "j18")
         ELSE Goto("i13", "k13")
    /\ UNCHANGED <<method, path, req, cb, calls, response,
                   matched_content_type, request_time, actions_run>>

i12 ==
    /\ At("i12")
    /\ \E inmhdr \in Header("If-None-Match") :
         /\ Reads("If-None-Match", inmhdr)
         /\ IF IsSome(inmhdr) THEN Goto("i12", "i13") ELSE Goto("i12", "l13")
    /\ UNCHANGED <<method, path, cb, calls, response, matched_content_type,
                   request_time, actions_run>>

i07 ==
    /\ At("i07")
    /\ IF method = "PUT" THEN Goto("i07", "i04") ELSE Goto("i07", "k07")
    /\ UNCHANGED <<method, path, req, cb, calls, response,
                   matched_content_type, request_time, actions_run>>

\* A node that asks the resource where it moved to: with a location it sets
\* Location on state.response and halts with status_code, else it goes on.
moved(label, callback, status_code, next) ==
    \E m_location \in Result(callback) :
      /\ Invokes({<<callback, m_location>>})
      /\ IF IsSome(m_location)
           THEN /\ response' = set_response_header(response, "Location",
                                                   Unwrap(m_location))
                /\ Return(label, halt(status_code, Traced(label)))
           ELSE /\ response' = response
                /\ Goto(label, next)

i04 ==
    /\ At("i04")
    /\ moved("i04", "moved_permanently", MovedPermanently, "p03")
    /\ UNCHANGED <<method, path, req, matched_content_type, request_time,
                   actions_run>>

\* j18, had it answered GET and HEAD with 302 Found.
j18_found ==
    /\ At("j18")
    /\ IF method = "GET" \/ method = "HEAD"
         THEN Return("j18", halt(302, Traced("j18")))
         ELSE Return("j18", halt(PreconditionFailed, Traced("j18")))
    /\ UNCHANGED <<method, path, req, cb, calls, response,
                   matched_content_type, request_time, actions_run>>

\* j18, had it answered GET alone with 304.
j18_get_alone ==
    /\ At("j18")
    /\ IF method = "GET"
         THEN Return("j18", halt(NotModified, Traced("j18")))
         ELSE Return("j18", halt(PreconditionFailed, Traced("j18")))
    /\ UNCHANGED <<method, path, req, cb, calls, response,
                   matched_content_type, request_time, actions_run>>

j18 ==
    /\ At("j18")
    /\ IF method = "GET" \/ method = "HEAD"
         THEN Return("j18", halt(NotModified, Traced("j18")))
         ELSE Return("j18", halt(PreconditionFailed, Traced("j18")))
    /\ UNCHANGED <<method, path, req, cb, calls, response,
                   matched_content_type, request_time, actions_run>>

\* k13, had it sent the empty tag list to j18 as well.
k13_any_list ==
    /\ At("k13")
    /\ Goto("k13", "j18")
    /\ UNCHANGED <<method, path, req, cb, calls, response,
                   matched_content_type, request_time, actions_run>>

k13 ==
    /\ At("k13")
    /\ IF Unwrap(Unwrap(req["If-None-Match"])).etags = <<>>
         THEN Goto("k13", "l13")
         ELSE Goto("k13", "j18")
    /\ UNCHANGED <<method, path, req, cb, calls, response,
                   matched_content_type, request_time, actions_run>>

\* k07, had it taken the two branches the other way round.
k07_swapped ==
    /\ At("k07")
    /\ \E existed \in Result("previously_existed") :
         /\ Invokes({<<"previously_existed", existed>>})
         /\ IF existed THEN Goto("k07", "l07") ELSE Goto("k07", "k05")
    /\ UNCHANGED <<method, path, req, response, matched_content_type,
                   request_time, actions_run>>

k07 ==
    /\ At("k07")
    /\ \E existed \in Result("previously_existed") :
         /\ Invokes({<<"previously_existed", existed>>})
         /\ IF existed THEN Goto("k07", "k05") ELSE Goto("k07", "l07")
    /\ UNCHANGED <<method, path, req, response, matched_content_type,
                   request_time, actions_run>>

k05 ==
    /\ At("k05")
    /\ moved("k05", "moved_permanently", MovedPermanently, "l05")
    /\ UNCHANGED <<method, path, req, matched_content_type, request_time,
                   actions_run>>

l17 ==
    /\ At("l17")
    /\ \E m_if_mod_since \in Header("If-Modified-Since") :
       \E m_last_modified \in Result("last_modified") :
         /\ Reads("If-Modified-Since", m_if_mod_since)
         /\ Invokes({<<"last_modified", m_last_modified>>})
         /\ IF /\ IsSome(m_if_mod_since)
               /\ IsSome(m_last_modified)
               /\ Unwrap(m_if_mod_since) > Unwrap(m_last_modified)
              THEN Goto("l17", "m16")
              ELSE Return("l17", halt(NotModified, Traced("l17")))
    /\ UNCHANGED <<method, path, response, matched_content_type,
                   request_time, actions_run>>

\* request_time(state): the time AirshipState::new() took from the clock
\* when the request arrived.  l15 is its only reader, and the model resolves
\* it there, the way it resolves a request header.
RequestTime == IF IsSome(request_time) THEN {Unwrap(request_time)} ELSE Dates

l15 ==
    /\ At("l15")
    /\ \E m_if_mod_since \in Header("If-Modified-Since") :
       \E now \in RequestTime :
         /\ Reads("If-Modified-Since", m_if_mod_since)
         /\ request_time' = Some(now)
         /\ IF IsSome(m_if_mod_since) /\ Unwrap(m_if_mod_since) > now
              THEN Goto("l15", "m16")
              ELSE Goto("l15", "l17")
    /\ UNCHANGED <<method, path, cb, calls, response, matched_content_type,
                   actions_run>>

\* valid_date is the constant true in the source.
l14 ==
    /\ At("l14")
    /\ LET valid_date == TRUE
       IN  IF valid_date THEN Goto("l14", "l15") ELSE Goto("l14", "m16")
    /\ UNCHANGED <<method, path, req, cb, calls, response,
                   matched_content_type, request_time, actions_run>>

l13 ==
    /\ At("l13")
    /\ \E imshdr \in Header("If-Modified-Since") :
         /\ Reads("If-Modified-Since", imshdr)
         /\ IF IsSome(imshdr) THEN Goto("l13", "l14") ELSE Goto("l13", "m16")
    /\ UNCHANGED <<method, path, cb, calls, response, matched_content_type,
                   request_time, actions_run>>

l07 ==
    /\ At("l07")
    /\ IF method = "POST"
         THEN Goto("l07", "m07")
         ELSE Return("l07", halt(NotFound, Traced("l07")))
    /\ UNCHANGED <<method, path, req, cb, calls, response,
                   matched_content_type, request_time, actions_run>>

l05 ==
    /\ At("l05")
    /\ moved("l05", "moved_temporarily", TemporaryRedirect, "m05")
    /\ UNCHANGED <<method, path, req, matched_content_type, request_time,
                   actions_run>>

----------------------------------------------------------------------------
(* decision.rs, M and N columns *)

\* m20, had it taken a deletion for completed as soon as delete_resource
\* returns true.
m20_never_accepted ==
    /\ At("m20")
    /\ \E deleted \in Result("delete_resource") :
       \E completed \in Result("delete_completed") :
         /\ Invokes({<<"delete_resource", deleted>>,
                     <<"delete_completed", completed>>})
         /\ IF deleted
              THEN Goto("m20", "o20")
              ELSE Return("m20", halt(InternalServerError, Traced("m20")))
    /\ UNCHANGED <<method, path, req, response, matched_content_type,
                   request_time, actions_run>>

m20 ==
    /\ At("m20")
    /\ \E deleted \in Result("delete_resource") :
       \E completed \in Result("delete_completed") :
         /\ Invokes({<<"delete_resource", deleted>>,
                     <<"delete_completed", completed>>})
         /\ IF deleted /\ completed THEN Goto("m20", "o20")
            ELSE IF deleted /\ ~completed
              THEN Return("m20", halt(Accepted, Traced("m20")))
              ELSE Return("m20", halt(InternalServerError, Traced("m20")))
    /\ UNCHANGED <<method, path, req, response, matched_content_type,
                   request_time, actions_run>>

m16 ==
    /\ At("m16")
    /\ IF method = "DELETE" THEN Goto("m16", "m20") ELSE Goto("m16", "n16")
    /\ UNCHANGED <<method, path, req, cb, calls, response,
                   matched_content_type, request_time, actions_run>>

\* m07, had it answered a refused POST with 410 Gone.
m07_gone ==
    /\ At("m07")
    /\ \E allow \in Result("allow_missing_post") :
         /\ Invokes({<<"allow_missing_post", allow>>})
         /\ IF allow
              THEN Goto("m07", "n11")
              ELSE Return("m07", halt(Gone, Traced("m07")))
    /\ UNCHANGED <<method, path, req, response, matched_content_type,
                   request_time, actions_run>>

m07 ==
    /\ At("m07")
    /\ \E allow \in Result("allow_missing_post") :
         /\ Invokes({<<"allow_missing_post", allow>>})
         /\ IF allow
              THEN Goto("m07", "n11")
              ELSE Return("m07", halt(NotFound, Traced("m07")))
    /\ UNCHANGED <<method, path, req, response, matched_content_type,
                   request_time, actions_run>>

m05 ==
    /\ At("m05")
    /\ IF method = "POST"
         THEN Goto("m05", "n05")
         ELSE Return("m05", halt(Gone, Traced("m05")))
    /\ UNCHANGED <<method, path, req, cb, calls, response,
                   matched_content_type, request_time, actions_run>>

n16 ==
    /\ At("n16")
    /\ IF method = "POST" THEN Goto("n16", "n11") ELSE Goto("n16", "o16")
    /\ UNCHANGED <<method, path, req, cb, calls, response,
                   matched_content_type, request_time, actions_run>>

n05 ==
    /\ At("n05")
    /\ \E allow \in Result("allow_missing_post") :
         /\ Invokes({<<"allow_missing_post", allow>>})
         /\ IF allow
              THEN Goto("n05", "n11")
              ELSE Return("n05", halt(Gone, Traced("n05")))
    /\ UNCHANGED <<method, path, req, response, matched_content_type,
                   request_time, actions_run>>

----------------------------------------------------------------------------
(* decision.rs, accepting a request body *)

\* req.headers().get::<ContentType>().and_then(|ct| map_content_media(accepted, ct))
accepted_action(accepted, m_ct_hdr) ==
    IF IsSome(m_ct_hdr) THEN map_content_media(accepted, Unwrap(m_ct_hdr)) ELSE None

\* action(req): the matched action runs.
Runs(action) == actions_run' = Append(actions_run, action)

\* append_request_path: the request path and the segments, the segments
\* separated by commas.
append_request_path(req_path, path_segments) == req_path \o join(path_segments, ",")

\* o14 and p03: is_conflict, else the accepted action for the Content-Type.
put_content(label) ==
    \E conflict \in Result("is_conflict") :
      IF conflict
        THEN /\ Invokes({<<"is_conflict", conflict>>})
             /\ Return(label, halt(Conflict, Traced(label)))
             /\ UNCHANGED <<req, actions_run>>
        ELSE \E accepted \in Result("content_types_accepted") :
             \E m_ct_hdr \in Header("Content-Type") :
               /\ Invokes({<<"is_conflict", conflict>>,
                           <<"content_types_accepted", accepted>>})
               /\ Reads("Content-Type", m_ct_hdr)
               /\ LET result == accepted_action(accepted, m_ct_hdr)
                  IN  IF IsSome(result)
                        THEN /\ Runs(Unwrap(result))
                             /\ Goto(label, "p11")
                        ELSE /\ actions_run' = actions_run
                             /\ Return(label, halt(UnsupportedMediaType,
                                                   Traced(label)))

\* process_post_action for PostCreate and PostCreateRedirect: create() sets
\* Location on state.response and runs the accepted action; on success
\* PostCreate goes to p11 and PostCreateRedirect halts with 303.
post_create(pr) ==
    \E accepted \in Result("content_types_accepted") :
    \E m_ct_hdr \in Header("Content-Type") :
      /\ Invokes({<<"process_post", pr>>, <<"content_types_accepted", accepted>>})
      /\ Reads("Content-Type", m_ct_hdr)
      /\ response' = set_response_header(response, "Location",
                                         append_request_path(path, pr.arg))
      /\ LET result == accepted_action(accepted, m_ct_hdr)
         IN  IF IsSome(result)
               THEN /\ Runs(Unwrap(result))
                    /\ IF pr.kind = "PostCreate"
                         THEN Goto("n11", "p11")
                         ELSE Return("n11", halt(SeeOther, Traced("n11")))
               ELSE /\ actions_run' = actions_run
                    /\ Return("n11", halt(UnsupportedMediaType, Traced("n11")))

\* process_post_action for PostProcess and PostProcessRedirect: the accepted
\* list comes with the PostResponse; PostProcessRedirect sets the string its
\* action returns as Location on state.response and halts with 303.
post_process(pr) ==
    \E m_ct_hdr \in Header("Content-Type") :
      /\ Invokes({<<"process_post", pr>>})
      /\ Reads("Content-Type", m_ct_hdr)
      /\ LET result == accepted_action(pr.arg, m_ct_hdr)
         IN  IF IsSome(result)
               THEN /\ Runs(Unwrap(result))
                    /\ IF pr.kind = "PostProcess"
                         THEN /\ response' = response
                              /\ Goto("n11", "p11")
                         ELSE /\ response' = set_response_header(
                                     response, "Location", Unwrap(result).result)
                              /\ Return("n11", halt(SeeOther, Traced("n11")))
               ELSE /\ actions_run' = actions_run
                    /\ response' = response
                    /\ Return("n11", halt(UnsupportedMediaType, Traced("n11")))

\* n11 invokes process_post and hands the PostResponse to process_post_action.
n11 ==
    /\ At("n11")
    /\ \E post_response \in Result("process_post") :
         IF post_response.kind \in {"PostCreate", "PostCreateRedirect"}
           THEN post_create(post_response)
           ELSE post_process(post_response)
    /\ UNCHANGED <<method, path, matched_content_type, request_time>>

----------------------------------------------------------------------------
(* decision.rs, O and P columns *)

o20 ==
    /\ At("o20")
    /\ IF is_response_empty(response)
         THEN Return("o20", halt(Created, Traced("o20")))
         ELSE Goto("o20", "o18")
    /\ UNCHANGED <<method, path, req, cb, calls, response,
                   matched_content_type, request_time, actions_run>>

\* The tail of o18: ETag and Last-Modified when the resource has them, then
\* halt_with_response, which takes state.response.
o18_finish(resp, invoked) ==
    \E m_etag \in Result("generate_etag") :
    \E m_modified \in Result("last_modified") :
      LET with_etag == IF IsSome(m_etag)
                         THEN set_response_header(resp, "ETag", Unwrap(m_etag))
                         ELSE resp
          with_modified == IF IsSome(m_modified)
                             THEN set_response_header(with_etag, "Last-Modified",
                                                      Unwrap(m_modified))
                             ELSE with_etag
      IN  /\ Invokes(invoked \cup {<<"generate_etag", m_etag>>,
                                   <<"last_modified", m_modified>>})
          /\ response' = None
          /\ Return("o18", halt_with_response(Ok, with_modified, Traced("o18")))

\* The content type and body o18 answers GET and HEAD with: the match c04
\* recorded, or else the first entry of provided.
o18_content(matched, provided) ==
    IF IsSome(matched) THEN Unwrap(matched) ELSE provided[1]

\* o18 for GET and HEAD, where the response gets its Content-Type and body.
\* content_types_provided is consulted only when c04 recorded no match, and
\* the first() of an empty list is unwrapped: the traversal panics.
o18_body(invoked) ==
    IF IsSome(matched_content_type)
      THEN /\ matched_content_type' = None
           /\ LET chosen == o18_content(matched_content_type, <<>>)
              IN  o18_finish(
                    set_response_body(
                      set_response_header(response, "Content-Type", chosen.mime),
                      chosen.body),
                    invoked)
      ELSE \E provided \in Result("content_types_provided") :
             /\ matched_content_type' = matched_content_type
             /\ IF provided = <<>>
                  THEN /\ Invokes(invoked \cup {<<"content_types_provided", provided>>})
                       /\ decision_trace' = Traced("o18")
                       /\ node' = "panic"
                       /\ UNCHANGED <<response, final>>
                       /\ UNCHANGED beside_request
                  ELSE LET chosen == o18_content(matched_content_type, provided)
                       IN  o18_finish(
                             set_response_body(
                               set_response_header(response, "Content-Type",
                                                   chosen.mime),
                               chosen.body),
                             invoked \cup {<<"content_types_provided", provided>>})

o18 ==
    /\ At("o18")
    /\ \E choices \in Result("multiple_choices") :
         IF choices
           THEN /\ Invokes({<<"multiple_choices", choices>>})
                /\ Return("o18", halt(MultipleChoices, Traced("o18")))
                /\ UNCHANGED <<response, matched_content_type>>
           ELSE IF method = "GET" \/ method = "HEAD"
             THEN o18_body({<<"multiple_choices", choices>>})
             ELSE /\ matched_content_type' = matched_content_type
                  /\ o18_finish(response, {<<"multiple_choices", choices>>})
    /\ UNCHANGED <<method, path, req, request_time, actions_run>>

o16 ==
    /\ At("o16")
    /\ IF method = "PUT" THEN Goto("o16", "o14") ELSE Goto("o16", "o17")
    /\ UNCHANGED <<method, path, req, cb, calls, response,
                   matched_content_type, request_time, actions_run>>

o17 ==
    /\ At("o17")
    /\ IF method = "PATCH"
         THEN \E accepted \in Result("patch_content_types_accepted") :
              \E m_ct_hdr \in Header("Content-Type") :
                /\ Invokes({<<"patch_content_types_accepted", accepted>>})
                /\ Reads("Content-Type", m_ct_hdr)
                /\ LET result == accepted_action(accepted, m_ct_hdr)
                   IN  IF IsSome(result)
                         THEN /\ Runs(Unwrap(result))
                              /\ Goto("o17", "o20")
                         ELSE /\ actions_run' = actions_run
                              /\ Return("o17", halt(UnsupportedMediaType,
                                                    Traced("o17")))
         ELSE /\ Goto("o17", "o18")
              /\ UNCHANGED <<req, cb, calls, actions_run>>
    /\ UNCHANGED <<method, path, response, matched_content_type, request_time>>

o14 ==
    /\ At("o14")
    /\ put_content("o14")
    /\ UNCHANGED <<method, path, response, matched_content_type, request_time>>

\* p11 looks for Location among the request's headers.
p11 ==
    /\ At("p11")
    /\ \E m_location \in Header("Location") :
         /\ Reads("Location", m_location)
         /\ IF IsSome(m_location)
              THEN Return("p11", halt(Created, Traced("p11")))
              ELSE Goto("p11", "o20")
    /\ UNCHANGED <<method, path, cb, calls, response, matched_content_type,
                   request_time, actions_run>>

p03 ==
    /\ At("p03")
    /\ put_content("p03")
    /\ UNCHANGED <<method, path, response, matched_content_type, request_time>>

----------------------------------------------------------------------------
(* The request arrives; the shim and the graph serve it. *)

\* The templates the served resource is registered under, and the request
\* paths: one that is routed and one that is not.
ServedRoutes == <<<<"x", 1>>>>

Paths == {"/x", "/y"}

\* A client that is not looking anything up.
Idle == [pc |-> "idle", path |-> "", matched |-> None, params |-> <<>>,
         dispatch |-> None, result |-> None]

Clients == {1, 2}

\* No call of map_accept_media on its own is under way.
NotNegotiating == [pc |-> "idle", provided |-> <<>>, accept |-> <<>>,
                   result |-> None]

\* A request and its RequestState, as a record of the request variables.
Snapshot ==
    [method |-> method, path |-> path, req |-> req, cb |-> cb, calls |-> calls,
     node |-> node, decision_trace |-> decision_trace, response |-> response,
     matched_content_type |-> matched_content_type,
     request_time |-> request_time, final |-> final,
     actions_run |-> actions_run]

\* The request variables hold the request s.
Holds(s) ==
    /\ method = s.method
    /\ path = s.path
    /\ req = s.req
    /\ cb = s.cb
    /\ calls = s.calls
    /\ node = s.node
    /\ decision_trace = s.decision_trace
    /\ response = s.response
    /\ matched_content_type = s.matched_content_type
    /\ request_time = s.request_time
    /\ final = s.final
    /\ actions_run = s.actions_run

\* A request as it arrives at Airship::call, with the fresh RequestState
\* (AirshipState::new) that call hands to traverse; headers are the request
\* headers known so far and results the callback results known so far.
Arrival(m, p, headers, results) ==
    [method |-> m, path |-> p, req |-> headers, cb |-> results,
     calls |-> [c \in Callbacks |-> 0],
     node |-> "call",
     decision_trace |-> <<>>,
     response |-> Some(NewResponse),
     matched_content_type |-> None,
     request_time |-> None,
     final |-> None,
     actions_run |-> <<>>]

\* A request has arrived of which nothing but method and path is known.
Arrived(m, p) ==
    Holds(Arrival(m, p, [h \in HeaderNames |-> None],
                  [c \in Callbacks |-> None]))

\* A resource of which no answer is settled.
AnyResource == [c \in Callbacks |-> None]

\* No second request is in flight, and the resource may answer anything.
Single ==
    /\ running = 1
    /\ parked = None
    /\ alone = <<None, None>>
    /\ answers = AnyResource

Init ==
    /\ \E m \in Methods : \E p \in Paths : Arrived(m, p)
    /\ routing_spec = ServedRoutes
    /\ airship_routes = RoutingTrie_from(routing_spec)
    /\ lookups = [c \in Clients |-> Idle]
    /\ negotiation = NotNegotiating
    /\ Single

\* decision::traverse: the chain of tail calls that starts at b13.
traverse ==
    \/ b13 \/ b12 \/ b11 \/ b10 \/ b09 \/ b08 \/ b07 \/ b06 \/ b05 \/ b04 \/ b03
    \/ c03 \/ c04 \/ d04 \/ d05 \/ e05 \/ e06 \/ f06 \/ f07
    \/ g07 \/ g08 \/ g09 \/ g11 \/ h07 \/ h10 \/ h11 \/ h12
    \/ i04 \/ i07 \/ i12 \/ i13 \/ j18 \/ k05 \/ k07 \/ k13
    \/ l05 \/ l07 \/ l13 \/ l14 \/ l15 \/ l17
    \/ m05 \/ m07 \/ m16 \/ m20 \/ n05 \/ n11 \/ n16
    \/ o14 \/ o16 \/ o17 \/ o18 \/ o20 \/ p03 \/ p11

Next == call \/ traverse

Spec == Init /\ [][Next]_vars

----------------------------------------------------------------------------
(* The router on its own: a server built from some RoutingSpec, and        *)
(* clients whose lookups interleave at each call of match_route.           *)

\* A RoutingSpec holds at most this many templates.
MaxRoutes == 2

Templates == {"blog", "blog </> archive", "blog </> ::id::",
              "blog </> ::year:: </> ::slug::", "files </> *", "files </> a"}

\* Every RoutingSpec of one to MaxRoutes templates; the resource a template
\* is registered with is named by its place in the spec.
RoutingSpecs ==
    UNION {{[i \in 1..n |-> <<ts[i], i>>] : ts \in [1..n -> Templates]}
             : n \in 1..MaxRoutes}

LookupPaths == {"/blog", "/blog/archive", "/blog/5", "/blog/2020/hello",
                "/files/a/b/c", "/files//a", "/nope"}

\* route (called from Airship::call): the first prefix_match, handed to
\* match_route with no params and no dispatch.
route_call(c) ==
    /\ lookups[c].pc = "idle"
    /\ \E path_info \in LookupPaths :
         lookups' = [lookups EXCEPT ![c] =
                       [pc |-> "matching", path |-> path_info,
                        matched |-> prefix_match(airship_routes, path_info),
                        params |-> <<>>, dispatch |-> None, result |-> None]]
    /\ UNCHANGED <<routing_spec, airship_routes>>
    /\ UNCHANGED request_vars
    /\ UNCHANGED in_flight_vars
    /\ UNCHANGED negotiation_vars

\* match_route_call, had match_route taken the leaf it matched out of the
\* trie (as insert_or_replace does with Trie::remove).
match_route_call_removing(c) ==
    /\ lookups[c].pc = "matching"
    /\ LET arm == match_route_arm(lookups[c].matched, lookups[c].params,
                                  lookups[c].dispatch)
       IN  IF IsSome(arm.recurse)
             THEN LET next == Unwrap(arm.recurse)
                  IN  lookups' = [lookups EXCEPT ![c] =
                        [@ EXCEPT
                           !.matched = prefix_match(airship_routes, next.key),
                           !.params = next.params,
                           !.dispatch = next.dispatch]]
             ELSE lookups' = [lookups EXCEPT ![c] =
                    [@ EXCEPT !.pc = "done", !.result = arm.result]]
    /\ airship_routes' =
         IF IsSome(lookups[c].matched)
           THEN [k \in DOMAIN airship_routes \ {Unwrap(lookups[c].matched)[1]}
                   |-> airship_routes[k]]
           ELSE airship_routes
    /\ UNCHANGED routing_spec
    /\ UNCHANGED request_vars
    /\ UNCHANGED in_flight_vars
    /\ UNCHANGED negotiation_vars

\* One call of match_route: it returns, or it looks the next key up and
\* calls itself.
match_route_call(c) ==
    /\ lookups[c].pc = "matching"
    /\ LET arm == match_route_arm(lookups[c].matched, lookups[c].params,
                                  lookups[c].dispatch)
       IN  IF IsSome(arm.recurse)
             THEN LET next == Unwrap(arm.recurse)
                  IN  lookups' = [lookups EXCEPT ![c] =
                        [@ EXCEPT
                           !.matched = prefix_match(airship_routes, next.key),
                           !.params = next.params,
                           !.dispatch = next.dispatch]]
             ELSE lookups' = [lookups EXCEPT ![c] =
                    [@ EXCEPT !.pc = "done", !.result = arm.result]]
    /\ UNCHANGED <<routing_spec, airship_routes>>
    /\ UNCHANGED request_vars
    /\ UNCHANGED in_flight_vars
    /\ UNCHANGED negotiation_vars

\* The caller has used the result; the client may look up again.
route_return(c) ==
    /\ lookups[c].pc = "done"
    /\ lookups' = [lookups EXCEPT ![c] = Idle]
    /\ UNCHANGED <<routing_spec, airship_routes>>
    /\ UNCHANGED request_vars
    /\ UNCHANGED in_flight_vars
    /\ UNCHANGED negotiation_vars

InitRoute ==
    /\ Arrived("GET", "/x")
    /\ routing_spec \in RoutingSpecs
    /\ airship_routes = RoutingTrie_from(routing_spec)
    /\ lookups = [c \in Clients |-> Idle]
    /\ negotiation = NotNegotiating
    /\ Single

NextRoute ==
    \E c \in Clients : route_call(c) \/ match_route_call(c) \/ route_return(c)

SpecRoute == InitRoute /\ [][NextRoute]_vars

----------------------------------------------------------------------------
(* The router serving one request at a time: a server built from a          *)
(* RoutingSpec over templates whose leaves meet at a trie key (a literal, a *)
(* variable and a wildcard under the same prefix, a wildcard after a        *)
(* variable), and paths that stop at, inside and beyond their segments.     *)

\* The template "files\t" has a tab for str::trim to remove.
RoutedTemplates ==
    {"blog", "blog </> ::id::", "blog </> ::id:: </> *",
     "files\t", "files </> ::v::", "files </> *",
     "a </> ::x::", "a </> bc"}

RoutedSpecs ==
    UNION {{[i \in 1..n |-> <<ts[i], i>>] : ts \in [1..n -> RoutedTemplates]}
             : n \in 1..MaxRoutes}

RoutedPaths ==
    {"/blog", "/blog/5", "/blog/5/x/y", "/files", "/files/a/b", "/filesystem",
     "/a/bc", "/a/bcd", "/nope"}

\* Airship::call routes the path of the request: route runs to its return.
call_route(c) ==
    /\ lookups[c].pc = "idle"
    /\ \E path_info \in RoutedPaths :
         lookups' = [lookups EXCEPT ![c] =
                       [pc |-> "done", path |-> path_info,
                        matched |-> prefix_match(airship_routes, path_info),
                        params |-> <<>>, dispatch |-> None,
                        result |-> route(airship_routes, path_info)]]
    /\ UNCHANGED <<routing_spec, airship_routes>>
    /\ UNCHANGED request_vars
    /\ UNCHANGED in_flight_vars
    /\ UNCHANGED negotiation_vars

InitLookup ==
    /\ Arrived("GET", "/x")
    /\ routing_spec \in RoutedSpecs
    /\ airship_routes = RoutingTrie_from(routing_spec)
    /\ lookups = [c \in Clients |-> Idle]
    /\ negotiation = NotNegotiating
    /\ Single

NextLookup == call_route(1) \/ route_return(1)

SpecLookup == InitLookup /\ [][NextLookup]_vars

----------------------------------------------------------------------------
(* Two requests in flight.  Each call of Airship::call makes its own        *)
(* RequestState and hands it to its own traversal; the request variables    *)
(* hold the request whose traversal runs, parked holds the other, and a     *)
(* switch hands the processor from one to the other between any two nodes.  *)
(* Each request is first served alone, so that what it gets when            *)
(* interleaved can be compared.  Both are routed to the same resource,      *)
(* whose callbacks answer what ServedResource says.                         *)

ServedResource ==
    [c \in Callbacks |->
       Some(CASE c = "allowed_methods" -> KnownMethods
              [] c = "content_types_provided" ->
                   <<Provided(TEXT_PLAIN, "ok"), Provided(APPLICATION_JSON, "{}")>>
              [] OTHER -> Default(c))]

InFlightMethods == {"GET", "POST", "OPTIONS", "DELETE"}

InFlightAccepts ==
    {None,
     Some(<<QItem(APPLICATION_XML, 1000)>>),
     Some(<<QItem(APPLICATION_JSON, 800), QItem(TEXT_PLAIN, 500)>>)}

\* A request whose only header is Accept, if it has one.
RequestHeaders(accept) ==
    [h \in HeaderNames |-> Some(IF h = "Accept" THEN accept ELSE None)]

InFlightRequests ==
    {Arrival(m, "/x", RequestHeaders(a), [c \in Callbacks |-> None]) :
       m \in InFlightMethods, a \in InFlightAccepts}

\* The traversal of s has returned a response, or has panicked.
Terminated(s) == IsSome(s.final) \/ s.node = "panic"

\* The same request arriving again: Airship::call gives it a new RequestState.
Again(s) == Arrival(s.method, s.path, s.req, [c \in Callbacks |-> None])

\* The request variables take up the request s.
Resume(s) ==
    /\ method' = s.method
    /\ path' = s.path
    /\ req' = s.req
    /\ cb' = s.cb
    /\ calls' = s.calls
    /\ node' = s.node
    /\ decision_trace' = s.decision_trace
    /\ response' = s.response
    /\ matched_content_type' = s.matched_content_type
    /\ request_time' = s.request_time
    /\ final' = s.final
    /\ actions_run' = s.actions_run

\* Both requests have been served alone and are now in flight together.
Together == IsSome(alone[1]) /\ IsSome(alone[2])

\* The running request takes its next step: Airship::call, or the node of
\* the graph it is at.
request_step ==
    /\ ~Terminated(Snapshot)
    /\ (call \/ traverse)

\* The running request has been served alone: how it ended is kept.  If
\* the other has not been served alone yet it is served next, else both
\* arrive again.
served_alone ==
    /\ Terminated(Snapshot)
    /\ ~IsSome(alone[running])
    /\ alone' = [alone EXCEPT ![running] = Some(Snapshot)]
    /\ IF IsSome(alone[3 - running])
         THEN /\ Resume(Again(Snapshot))
              /\ UNCHANGED <<running, parked>>
         ELSE /\ Resume(Unwrap(parked))
              /\ parked' = Some(Again(Snapshot))
              /\ running' = 3 - running
    /\ UNCHANGED <<answers, router_vars>>
    /\ UNCHANGED negotiation_vars

\* switch, had the RequestState been one that every call shares (a field of
\* Airship, say): the request changes hands, the AirshipState stays.
switch_sharing_state ==
    /\ Together
    /\ Resume([Unwrap(parked) EXCEPT
                 !.decision_trace = decision_trace,
                 !.response = response,
                 !.matched_content_type = matched_content_type,
                 !.request_time = request_time])
    /\ parked' = Some(Snapshot)
    /\ running' = 3 - running
    /\ UNCHANGED <<alone, answers, router_vars>>
    /\ UNCHANGED negotiation_vars

\* The traversal of the other request runs next; each keeps its own
\* request and RequestState.
switch ==
    /\ Together
    /\ Resume(Unwrap(parked))
    /\ parked' = Some(Snapshot)
    /\ running' = 3 - running
    /\ UNCHANGED <<alone, answers, router_vars>>
    /\ UNCHANGED negotiation_vars

InitInFlight ==
    /\ \E r1 \in InFlightRequests : Holds(r1)
    /\ parked \in {Some(r2) : r2 \in InFlightRequests}
    /\ running = 1
    /\ alone = <<None, None>>
    /\ answers = ServedResource
    /\ routing_spec = ServedRoutes
    /\ airship_routes = RoutingTrie_from(routing_spec)
    /\ lookups = [c \in Clients |-> Idle]
    /\ negotiation = NotNegotiating

NextInFlight == request_step \/ served_alone \/ switch

SpecInFlight == InitInFlight /\ [][NextInFlight]_vars

----------------------------------------------------------------------------
(* A GET request and its HEAD twin, served side by side.  The two differ in *)
(* the method alone: a header that one of them has is a header of the       *)
(* other, and what a callback answers the GET request at a node it answers  *)
(* the HEAD request at that node.  Each has its own RequestState, and with  *)
(* it its own reading of the clock.  The GET request (running = 1) takes a  *)
(* step, then the HEAD request (running = 2) takes its step.                *)

\* The steps Airship::call and the nodes have taken for the request s.
Steps(s) ==
    IF s.node = "call" THEN (IF IsSome(s.final) THEN 1 ELSE 0)
    ELSE 1 + Len(s.decision_trace)

\* The next step of the request whose turn it is: the GET request when the
\* HEAD request has caught up, the HEAD request when it is behind.
twin_step ==
    /\ IF running = 1
         THEN Steps(Snapshot) = Steps(Unwrap(parked))
         ELSE Steps(Snapshot) < Steps(Unwrap(parked))
    /\ request_step

\* The two requests have taken the same number of steps and are not at
\* the same node, or have not been answered alike.
Parted ==
    /\ Steps(Snapshot) = Steps(Unwrap(parked))
    /\ \/ node # Unwrap(parked).node
       \/ final # Unwrap(parked).final

\* The other request takes its turn.  It has the headers this one has; the
\* HEAD request is answered by the callbacks as the GET request was at its
\* last step, the GET request by a resource that may answer anything.  A
\* pair that has parted is followed no further.
hand_over ==
    /\ IF running = 1
         THEN Steps(Snapshot) > Steps(Unwrap(parked))
         ELSE /\ Steps(Snapshot) = Steps(Unwrap(parked))
              /\ ~Terminated(Unwrap(parked))
              /\ ~Parted
    /\ Resume([Unwrap(parked) EXCEPT !.req = req])
    /\ parked' = Some(Snapshot)
    /\ running' = 3 - running
    /\ answers' = IF running = 1 THEN cb ELSE AnyResource
    /\ UNCHANGED <<alone, router_vars>>
    /\ UNCHANGED negotiation_vars

InitTwin ==
    /\ \E p \in Paths :
         /\ Arrived("GET", p)
         /\ parked = Some(Arrival("HEAD", p, [h \in HeaderNames |-> None],
                                  [c \in Callbacks |-> None]))
    /\ running = 1
    /\ alone = <<None, None>>
    /\ answers = AnyResource
    /\ routing_spec = ServedRoutes
    /\ airship_routes = RoutingTrie_from(routing_spec)
    /\ lookups = [c \in Clients |-> Idle]
    /\ negotiation = NotNegotiating

NextTwin == twin_step \/ hand_over

SpecTwin == InitTwin /\ [][NextTwin]_vars

----------------------------------------------------------------------------
(* map_accept_media on its own: c04 calls it with what content_types_provided *)
(* returned and the Accept header of the request.                            *)

\* The longest Accept header and the longest provided list.
MaxAccept == 2

MaxProvided == 3

\* The sequences over S of length up to n.
SeqsUpTo(S, n) == UNION {[1..k -> S] : k \in 0..n}

TEXT_HTML == Mime("text", "html")

\* The media ranges and qualities of an Accept item.
MediaRanges == {TEXT_PLAIN, APPLICATION_JSON, Mime("text", STAR), STAR_STAR}

Qualities == {q(0), q(500), q(1000)}

NegotiatedAccepts ==
    SeqsUpTo({QItem(m, quality) : m \in MediaRanges, quality \in Qualities},
             MaxAccept)

\* The entries of a provided list; the body tells which entry it is.
NegotiatedProvided ==
    SeqsUpTo({Provided(m, m.subtype) :
                m \in {TEXT_PLAIN, TEXT_HTML, APPLICATION_JSON}},
             MaxProvided)

\* map_accept_media(provided, accept) runs and returns.
map_accept_media_call ==
    /\ negotiation.pc = "called"
    /\ negotiation' =
         [negotiation EXCEPT
            !.pc = "returned",
            !.result = map_accept_media(negotiation.provided, negotiation.accept)]
    /\ UNCHANGED request_vars
    /\ UNCHANGED router_vars
    /\ UNCHANGED in_flight_vars

InitAccept ==
    /\ Arrived("GET", "/x")
    /\ routing_spec = ServedRoutes
    /\ airship_routes = RoutingTrie_from(routing_spec)
    /\ lookups = [c \in Clients |-> Idle]
    /\ Single
    /\ \E provided \in NegotiatedProvided : \E accept \in NegotiatedAccepts :
         negotiation = [pc |-> "called", provided |-> provided,
                        accept |-> accept, result |-> None]

NextAccept == map_accept_media_call

SpecAccept == InitAccept /\ [][NextAccept]_vars

----------------------------------------------------------------------------
(* What the properties below speak of. *)

\* A response has been returned.
Halted == IsSome(final)

Status == Unwrap(final).status

Headers == Unwrap(final).headers

\* The traversal has visited the node.
Visited(label) == \E i \in DOMAIN decision_trace : decision_trace[i] = label

LastLabel == decision_trace[Len(decision_trace)]

\* The callback has returned v.
Returned(c, v) == cb[c] = Some(v)

\* The request header has been read and is present.
Present(h) == IsSome(req[h]) /\ IsSome(Unwrap(req[h]))

\* The callbacks no node of the B column or of c04 invokes.
LaterCallbacks ==
    Callbacks \ {"service_available", "uri_too_long", "allowed_methods",
                 "malformed_request", "is_authorized", "forbidden",
                 "valid_content_headers", "known_content_type",
                 "entity_too_large", "content_types_provided"}

BColumn == {"b13", "b12", "b11", "b10", "b09", "b08", "b07", "b06", "b05",
            "b04", "b03"}

----------------------------------------------------------------------------
(* C1 *)

\* C1: the traversal visits no node twice (the graph is acyclic, so it halts
\* after finitely many visits), and the node visited after f07 is g07.
C1_HaltsAndEncodingContinuesToG07 ==
    /\ \A i, j \in DOMAIN decision_trace :
         decision_trace[i] = decision_trace[j] => i = j
    /\ \A i \in DOMAIN decision_trace :
         (decision_trace[i] = "f07" /\ i < Len(decision_trace))
           => decision_trace[i + 1] = "g07"

----------------------------------------------------------------------------
(* C2 *)

\* C2: once service_available has returned false the request is answered,
\* with 503, by b13, the only node visited, whatever the method.
C2_Unavailable503 ==
    Returned("service_available", FALSE)
      => /\ Halted
         /\ Status = ServiceUnavailable
         /\ node = "b13"
         /\ decision_trace = <<"b13">>

C2_Witness ==
    /\ Returned("service_available", FALSE)
    /\ Halted
    /\ Status = ServiceUnavailable
    /\ method = "DELETE"

----------------------------------------------------------------------------
(* C3 *)

\* C3: a step of a decision node appends that node's label to the trace and
\* changes nothing else of it, a step of the shim leaves the trace alone;
\* and when a step halts the traversal, the Airship-Trace header of the
\* response is the trace joined with commas, the trace starts with b13 and
\* ends with the label of the node that halted.
C3_TraceAppendOnly ==
    [][/\ IF node = "call"
            THEN decision_trace' = decision_trace
            ELSE decision_trace' = Append(decision_trace, node)
       /\ (IsSome(final') /\ node # "call")
            => /\ has(Unwrap(final').headers, "Airship-Trace")
               /\ Unwrap(final').headers["Airship-Trace"]
                    = join(decision_trace', ",")
               /\ decision_trace'[1] = "b13"
               /\ decision_trace'[Len(decision_trace')] = node'
               /\ node' = node]_vars

C3_Witness ==
    /\ Halted
    /\ node = "b10"
    /\ decision_trace = <<"b13", "b12", "b11", "b10">>
    /\ Headers["Airship-Trace"] = "b13,b12,b11,b10"

----------------------------------------------------------------------------
(* C4 *)

\* C4: a 405 response comes from b10, for a method that is not in the list
\* allowed_methods returned, and its Allow header lists that list.
C4_405OnlyAtB10WithAllow ==
    (Halted /\ Status = MethodNotAllowed)
      => /\ node = "b10"
         /\ LastLabel = "b10"
         /\ IsSome(cb["allowed_methods"])
         /\ method \notin SeqToSet(Unwrap(cb["allowed_methods"]))
         /\ has(Headers, "Allow")
         /\ Headers["Allow"] = join(Unwrap(cb["allowed_methods"]), ", ")

C4_Witness ==
    /\ Halted
    /\ Status = MethodNotAllowed
    /\ method = "PATCH"
    /\ Returned("allowed_methods", <<"GET", "HEAD">>)
    /\ Headers["Allow"] = "GET, HEAD"
    /\ LastLabel = "b10"

----------------------------------------------------------------------------
(* C5 *)

\* C5: an OPTIONS request never gets past b03; once b03 has been visited
\* for it the response is 204 with an Allow header listing allowed_methods
\* as b03 was answered (b10 has let the request pass on an answer of its
\* own), and neither resource_exists nor any callback of content
\* negotiation has been invoked.
C5_OptionsHaltsAtB03 ==
    method = "OPTIONS"
      => /\ node \in BColumn \cup {"call"}
         /\ Visited("b03")
              => /\ Halted
                 /\ Status = NoContent
                 /\ node = "b03"
                 /\ LastLabel = "b03"
                 /\ calls["allowed_methods"] = 2
                 /\ IsSome(cb["allowed_methods"])
                 /\ has(Headers, "Allow")
                 /\ Headers["Allow"] = join(Unwrap(cb["allowed_methods"]), ", ")
                 /\ \A c \in LaterCallbacks \cup {"content_types_provided"} :
                      calls[c] = 0

C5_Witness ==
    /\ method = "OPTIONS"
    /\ Halted
    /\ Status = NoContent
    /\ Returned("allowed_methods", <<"GET", "HEAD", "OPTIONS">>)
    /\ Headers["Allow"] = "GET, HEAD, OPTIONS"
    /\ LastLabel = "b03"

----------------------------------------------------------------------------
(* C6 *)

\* The request is a GET, allowed_methods lists GET, resource_exists has
\* returned true, and c04 found a match for the Accept header.
C6_AllowedGetSatisfiableAccept ==
    /\ method = "GET"
    /\ IsSome(cb["allowed_methods"])
    /\ "GET" \in SeqToSet(Unwrap(cb["allowed_methods"]))
    /\ Returned("resource_exists", TRUE)
    /\ Present("Accept")
    /\ IsSome(cb["content_types_provided"])
    /\ IsSome(map_accept_media(Unwrap(cb["content_types_provided"]),
                               Unwrap(Unwrap(req["Accept"]))))

\* The mime c04 negotiates for the request.
C6_NegotiatedMime ==
    Unwrap(map_accept_media(Unwrap(cb["content_types_provided"]),
                            Unwrap(Unwrap(req["Accept"])))).mime

C6_Is200WithNegotiatedType ==
    /\ Status = Ok
    /\ node = "o18"
    /\ has(Headers, "Content-Type")
    /\ Headers["Content-Type"] = C6_NegotiatedMime

\* C6 as claimed: the response to an allowed GET of an existing resource
\* with a satisfiable Accept header is 200 with the negotiated Content-Type.
C6_Original ==
    (Halted /\ C6_AllowedGetSatisfiableAccept) => C6_Is200WithNegotiatedType

\* C6, amended: the response to such a request is 200 with the negotiated
\* Content-Type, unless a conditional header ends it with 412 (at g11 or
\* h12) or with 304 (at j18 or l17), or multiple_choices ends it with 300
\* (at o18).
C6_GetNegotiatedContentType ==
    (Halted /\ C6_AllowedGetSatisfiableAccept)
      => \/ C6_Is200WithNegotiatedType
         \/ (Status = PreconditionFailed /\ node \in {"g11", "h12"})
         \/ (Status = NotModified /\ node \in {"j18", "l17"})
         \/ (Status = MultipleChoices /\ node = "o18"
               /\ Returned("multiple_choices", TRUE))

C6_Witness ==
    /\ Halted
    /\ C6_AllowedGetSatisfiableAccept
    /\ req["Accept"] = Some(Some(<<QItem(APPLICATION_JSON, 800),
                                   QItem(TEXT_PLAIN, 500)>>))
    /\ Returned("content_types_provided",
                <<Provided(TEXT_PLAIN, "ok"), Provided(APPLICATION_JSON, "{}")>>)
    /\ Status = Ok
    /\ Headers["Content-Type"] = APPLICATION_JSON
    /\ Unwrap(final).body = Some("{}")

----------------------------------------------------------------------------
(* C7 *)

\* A media range matches a provided mime.
C7_RangeMatches(range, mime) ==
    \/ range = STAR_STAR
    \/ (range.type = mime.type
          /\ (range.subtype = mime.subtype \/ range.subtype = STAR))

\* No media range of the Accept header matches any provided entry.
C7_NothingMatches ==
    LET accept == Unwrap(Unwrap(req["Accept"]))
        provided == Unwrap(cb["content_types_provided"])
    IN  \A i \in DOMAIN accept : \A j \in DOMAIN provided :
          ~C7_RangeMatches(accept[i].item, provided[j].mime)

\* C7: when c04 has been visited and no media range of the Accept header
\* matches any entry of content_types_provided, the traversal has halted at
\* c04 with 406, c04 is the last label of the trace, and no callback of a
\* later node has been invoked.
C7_NoMatch406AtC04 ==
    (Visited("c04") /\ C7_NothingMatches)
      => /\ Halted
         /\ Status = NotAcceptable
         /\ node = "c04"
         /\ LastLabel = "c04"
         /\ \A c \in LaterCallbacks : calls[c] = 0

C7_Witness ==
    /\ Visited("c04")
    /\ C7_NothingMatches
    /\ method = "GET"
    /\ req["Accept"] = Some(Some(<<QItem(APPLICATION_XML, 1000)>>))
    /\ Returned("content_types_provided",
                <<Provided(TEXT_PLAIN, "ok"), Provided(APPLICATION_JSON, "{}")>>)
    /\ Halted
    /\ Status = NotAcceptable

----------------------------------------------------------------------------
(* C8 *)

StatusCodesEmitted ==
    {200, 201, 202, 204, 300, 301, 303, 304, 307, 400, 401, 403, 404, 405,
     406, 409, 410, 412, 413, 414, 415, 500, 501, 503}

\* C8: the status of every response returned is one of the emitted set.
C8_StatusInEmittedSet == Halted => Status \in StatusCodesEmitted

\* Every status of the set is in fact returned by some node; the witness
\* is one of the rarer ones, the 304 j18 answers a GET with.
C8_Witness ==
    /\ Halted
    /\ Status = NotModified
    /\ node = "j18"
    /\ method = "GET"

----------------------------------------------------------------------------
(* C9 *)

\* C9: every response returned carries Server, Airship-Trace and
\* Airship-Quip, the 404 of a failed routing included.
C9_EveryResponseCarriesAirshipHeaders ==
    Halted => {"Server", "Airship-Trace", "Airship-Quip"} \subseteq DOMAIN Headers

----------------------------------------------------------------------------
(* C10 *)

\* C10: a 301 response carries the Location moved_permanently returned and
\* a 307 response the Location moved_temporarily returned.
C10_RedirectsCarryLocation ==
    /\ (Halted /\ Status = MovedPermanently)
         => /\ has(Headers, "Location")
            /\ Some(Headers["Location"]) = Unwrap(cb["moved_permanently"])
    /\ (Halted /\ Status = TemporaryRedirect)
         => /\ has(Headers, "Location")
            /\ Some(Headers["Location"]) = Unwrap(cb["moved_temporarily"])

----------------------------------------------------------------------------
(* C11 *)

\* C11: every 303 response carries a Location header: the string the matched
\* action returned for PostProcessRedirect, the request path followed by the
\* returned segments for PostCreateRedirect.
C11_SeeOtherCarriesLocation ==
    (Halted /\ Status = SeeOther)
      => /\ has(Headers, "Location")
         /\ LET pr == Unwrap(cb["process_post"])
            IN  Headers["Location"] =
                  IF pr.kind = "PostCreateRedirect"
                    THEN append_request_path(path, pr.arg)
                    ELSE Unwrap(accepted_action(
                             pr.arg, Unwrap(req["Content-Type"]))).result

----------------------------------------------------------------------------
(* C12 *)

\* A routed POST without any of the headers the nodes read, whose resource_exists,
\* previously_existed and allow_missing_post return false (where invoked)
\* and whose other callbacks, allowed_methods or not, return their defaults.
C12_MissingPost(with_allowed_methods) ==
    /\ method = "POST"
    /\ Visited("b13")
    /\ \A h \in HeaderNames : IsSome(req[h]) => ~Present(h)
    /\ \A c \in {"resource_exists", "previously_existed", "allow_missing_post"} :
         IsSome(cb[c]) => Returned(c, FALSE)
    /\ \A c \in Callbacks \ ({"resource_exists", "previously_existed",
                               "allow_missing_post"} \cup with_allowed_methods) :
         IsSome(cb[c]) => Returned(c, Default(c))

C12_Ends404 == Status = NotFound /\ LastLabel \in {"l07", "m07"}

\* The claim as stated: with every other callback at its default, the
\* default allowed_methods included.
C12_Original == (Halted /\ C12_MissingPost({})) => C12_Ends404

\* C12: a POST for which resource_exists, previously_existed and
\* allow_missing_post return false, allowed_methods lists POST and every
\* other callback returns its default ends with 404 and a trace whose last
\* label is m07.
C12_MissingPost404AtM07 ==
    (/\ Halted
     /\ C12_MissingPost({"allowed_methods"})
     /\ IsSome(cb["allowed_methods"])
     /\ "POST" \in SeqToSet(Unwrap(cb["allowed_methods"])))
      => C12_Ends404 /\ LastLabel = "m07"

C12_Witness ==
    /\ Halted
    /\ C12_MissingPost({"allowed_methods"})
    /\ IsSome(cb["allowed_methods"])
    /\ "POST" \in SeqToSet(Unwrap(cb["allowed_methods"]))
    /\ Returned("allow_missing_post", FALSE)
    /\ Status = NotFound
    /\ LastLabel = "m07"

----------------------------------------------------------------------------
(* C13 *)

\* Wherever the trace has label a with a label after it, that label is b.
Follows(a, b) ==
    \A i \in DOMAIN decision_trace :
      (decision_trace[i] = a /\ i < Len(decision_trace))
        => decision_trace[i + 1] = b

\* The If-None-Match header i12 read.
C13_IfNoneMatch == Unwrap(req["If-None-Match"])

\* C13: once i12 is reached (the resource exists and the If-Match and
\* If-Unmodified-Since checks have passed), an If-None-Match of `*` or of a
\* non-empty tag list leads to j18, which halts with 304 for GET and HEAD and
\* with 412 for any other method; an empty tag list leads to l13 through
\* k13, and no header to l13 directly. generate_etag is not invoked before
\* l13.
C13_IfNoneMatchLeadsToJ18 ==
    Visited("i12") =>
      /\ Returned("resource_exists", TRUE)
      /\ ~Visited("l13") => calls["generate_etag"] = 0
      /\ IF ~IsSome(C13_IfNoneMatch)
           THEN Follows("i12", "l13") /\ ~Visited("j18")
           ELSE /\ Follows("i12", "i13")
                /\ IF Unwrap(C13_IfNoneMatch) = Any
                     THEN Follows("i13", "j18")
                     ELSE /\ Follows("i13", "k13")
                          /\ IF Unwrap(C13_IfNoneMatch).etags = <<>>
                               THEN Follows("k13", "l13") /\ ~Visited("j18")
                               ELSE Follows("k13", "j18")
      /\ Visited("j18") =>
           /\ Halted
           /\ LastLabel = "j18"
           /\ ~Visited("l13")
           /\ Status = IF method \in {"GET", "HEAD"}
                         THEN NotModified ELSE PreconditionFailed

C13_Witness ==
    /\ Halted
    /\ Visited("k13")
    /\ LastLabel = "j18"
    /\ method = "PUT"
    /\ Status = PreconditionFailed

----------------------------------------------------------------------------
(* The router claims are about the lookups a client has finished. *)

LookedUp(c) == lookups[c].pc = "done"

Resolved(c) == LookedUp(c) /\ IsSome(lookups[c].result)

\* What the finished lookup of client c returned.
Found(c) == Unwrap(lookups[c].result)

\* The i-th template of the RoutingSpec, parsed.
Registered(i) == Route_from(routing_spec[i][1])

\* The trie key under which the i-th template's terminal leaf is inserted.
TerminalKey(i) ==
    LET leaves == route_leaves(<<Registered(i), i>>)
    IN  leaves[Len(leaves)][1]

EndsInStar(r) == Len(r) > 0 /\ r[Len(r)].kind = "RestUnbound"

Literals(r) == \A n \in DOMAIN r : r[n].kind = "Bound"

HasVar(r) == \E n \in DOMAIN r : r[n].kind = "Var"

\* The segments of a request path: /a/b has the segments a and b.
Segments(p) == Tail(split(p, "/"))

\* The path has one segment for each part of the route: the literal itself
\* where the route has a literal, any non-empty text where it has a variable.
MatchesBySegment(r, p) ==
    /\ ~EndsInStar(r)
    /\ Len(Segments(p)) = Len(r)
    /\ \A n \in DOMAIN r :
         IF r[n].kind = "Bound" THEN Segments(p)[n] = r[n].text
         ELSE Segments(p)[n] # ""

----------------------------------------------------------------------------
(* C14 *)

\* C14: when several templates of the same kind produce the same terminal
\* trie key, a lookup that resolves to one of them resolves to the one
\* registered first.
C14_FirstRegisteredWins ==
    \A c \in Clients :
      Resolved(c) =>
        LET k == Found(c).res.resource
        IN  \A i \in 1..(k - 1) :
              ~(/\ TerminalKey(i) = TerminalKey(k)
                /\ EndsInStar(Registered(i)) = EndsInStar(Registered(k)))

----------------------------------------------------------------------------
(* C15 *)

\* The request path that spells out a template of literals.
LiteralPath(r) == join([n \in DOMAIN r |-> "/" \o r[n].text], "")

\* The i-th template is made of literals and the j-th has a variable after
\* the same first literal.
C15_LiteralAndVariable(i, j) ==
    /\ Literals(Registered(i))
    /\ HasVar(Registered(j))
    /\ Registered(j)[1] = Registered(i)[1]

\* C15: where a template of literals shares its prefix with a template that
\* has a variable, whichever was registered first, the path equal to the
\* literal template resolves to the literal template's resource with no
\* params.
C15_LiteralOutranksVariable ==
    \A c \in Clients :
    \A i, j \in DOMAIN routing_spec :
      (/\ C15_LiteralAndVariable(i, j)
       /\ LookedUp(c)
       /\ lookups[c].path = LiteralPath(Registered(i)))
        => /\ Resolved(c)
           /\ Found(c).res.route = Registered(i)
           /\ routing_spec[Found(c).res.resource][1] = routing_spec[i][1]
           /\ DOMAIN Found(c).params = {}

C15_Witness ==
    /\ routing_spec = <<<<"blog </> ::year:: </> ::slug::", 1>>,
                        <<"blog </> archive", 2>>>>
    /\ Resolved(1)
    /\ lookups[1].path = "/blog/archive"
    /\ Found(1).res.resource = 2
    /\ DOMAIN Found(1).params = {}

----------------------------------------------------------------------------
(* C16 *)

\* The names of the variables of a route, in order, and the places in the
\* route at which they stand.
RECURSIVE VarPlaces(_, _)
VarPlaces(r, n) ==
    IF n > Len(r) THEN <<>>
    ELSE IF r[n].kind = "Var" THEN <<n>> \o VarPlaces(r, n + 1)
    ELSE VarPlaces(r, n + 1)

\* The i-th template has a variable and is the only template of the spec,
\* repetitions of itself aside, that the path matches segment by segment.
C16_OnlyMatch(i, p) ==
    /\ HasVar(Registered(i))
    /\ MatchesBySegment(Registered(i), p)
    /\ \A k \in DOMAIN routing_spec :
         MatchesBySegment(Registered(k), p) => Registered(k) = Registered(i)

\* C16: a path that matches a template with variables segment by segment
\* resolves to that template's resource, and params binds the template's
\* i-th variable to the text of the segment at the i-th variable's place.
C16_VariablesBindTheirSegments ==
    \A c \in Clients :
    \A i \in DOMAIN routing_spec :
      (LookedUp(c) /\ C16_OnlyMatch(i, lookups[c].path))
        => /\ Resolved(c)
           /\ Found(c).res.route = Registered(i)
           /\ LET places == VarPlaces(Registered(i), 1)
              IN  \A n \in DOMAIN places :
                    Found(c).params[Registered(i)[places[n]].text]
                      = Segments(lookups[c].path)[places[n]]

----------------------------------------------------------------------------
(* C17 *)

\* The literals of a template that ends in `*`.
LiteralPrefix(r) == SubSeq(r, 1, Len(r) - 1)

\* s with one leading '/' removed, if it has one.
WithoutLeadingSlash(s) == IF starts_with(s, "/") THEN drop(s, 1) ELSE s

\* C17: a path that extends the literal prefix of a template of literals
\* followed by `*` resolves to that template's resource, with no params and
\* the rest of the path, its leading '/' removed, as the dispatch path.
C17_StarTakesTheRest ==
    \A c \in Clients :
    \A i \in DOMAIN routing_spec :
      LET r == Registered(i)
          prefix == LiteralPath(LiteralPrefix(r))
      IN  (/\ EndsInStar(r)
           /\ Literals(LiteralPrefix(r))
           /\ LookedUp(c)
           /\ starts_with(lookups[c].path, prefix))
            => /\ Resolved(c)
               /\ Found(c).res.route = r
               /\ DOMAIN Found(c).params = {}
               /\ Found(c).dispatch
                    = <<WithoutLeadingSlash(drop(lookups[c].path, Len(prefix)))>>

----------------------------------------------------------------------------
(* C18 *)

\* Two finished lookups of the same path have the same result, and every
\* finished lookup has the result route gives on the trie as it was built.
C18_SameResult ==
    /\ \A c, d \in Clients :
         (LookedUp(c) /\ LookedUp(d) /\ lookups[c].path = lookups[d].path)
           => lookups[c].result = lookups[d].result
    /\ \A c \in Clients :
         LookedUp(c)
           => lookups[c].result
                = route(RoutingTrie_from(routing_spec), lookups[c].path)

\* C18: no step of a lookup changes the routing trie, however the lookups
\* of the clients interleave, and a path looked up again resolves to the
\* same resource, params and dispatch path.
C18_LookupLeavesTrieUnchanged ==
    /\ [][airship_routes' = airship_routes]_vars
    /\ [](airship_routes = RoutingTrie_from(routing_spec))
    /\ []C18_SameResult

C18_Witness ==
    /\ Resolved(1)
    /\ Resolved(2)
    /\ lookups[1].path = "/blog/2020/hello"
    /\ lookups[2].path = "/blog/2020/hello"
    /\ Len(lookups[1].params) = 2

----------------------------------------------------------------------------
(* C19 *)

\* The request i of the two in flight, with its RequestState.
InFlight(i) == IF running = i THEN Snapshot ELSE Unwrap(parked)

IsPrefix(s, t) == Len(s) <= Len(t) /\ SubSeq(t, 1, Len(s)) = s

\* Each request in flight has traced only labels of its own traversal, in
\* the order it traced them when served alone, and once its traversal has
\* ended its trace, its matched content type, the response in its state and
\* the response returned are those it had when served alone.
C19_AsServedAlone ==
    Together =>
      \A i \in {1, 2} :
        LET mine == InFlight(i)
            served == Unwrap(alone[i])
        IN  /\ IsPrefix(mine.decision_trace, served.decision_trace)
            /\ Terminated(mine) =>
                 /\ mine.decision_trace = served.decision_trace
                 /\ mine.matched_content_type = served.matched_content_type
                 /\ mine.response = served.response
                 /\ mine.final = served.final

\* C19: with the traversals of two requests interleaved in any order, a
\* step of one leaves the other's request state as it was, and each request
\* ends with the trace, the matched content type and the response it gets
\* when served alone.
C19_RequestsDoNotInterfere ==
    /\ [][running' = running => parked' = parked]_vars
    /\ []C19_AsServedAlone

\* Both traversals were under way at once, and one has now returned 200
\* while the other, with a different method, is still between two nodes.
C19_Witness ==
    /\ Together
    /\ Halted
    /\ Status = Ok
    /\ Unwrap(parked).method # method
    /\ Len(Unwrap(parked).decision_trace) > 3
    /\ ~Terminated(Unwrap(parked))

----------------------------------------------------------------------------
(* C20 *)

\* C20: a GET or HEAD for which o18 has run with no negotiated content type
\* and an empty content_types_provided has ended with a 500 response.
C20_EmptyProvidedYields500 ==
    (/\ Visited("o18")
     /\ method \in {"GET", "HEAD"}
     /\ Returned("multiple_choices", FALSE)
     /\ Returned("content_types_provided", <<>>))
      => Halted /\ Status = InternalServerError

----------------------------------------------------------------------------
(* C21 *)

\* C21: along the traversal no resource callback has been invoked more than
\* once, allowed_methods, last_modified and moved_permanently included.
C21_EachCallbackInvokedAtMostOnce == \A c \in Callbacks : calls[c] <= 1

----------------------------------------------------------------------------
(* C22 *)

\* The resource's implemented may return false: no node has invoked it and
\* found true.
C22_ImplementedMayBeFalse == cb["implemented"] # Some(TRUE)

\* C22: a request that has passed through b12 on a resource whose
\* implemented returns false has been answered with 501.
C22_NotImplementedYields501 ==
    (Halted /\ Visited("b12") /\ C22_ImplementedMayBeFalse)
      => Status = NotImplemented

----------------------------------------------------------------------------
(* C23 *)

\* The Accept items that precede the first item of quality zero.
C23_Considered(accept) ==
    {i \in DOMAIN accept : \A k \in 1..i : accept[k].quality # q(0)}

\* The media range matches the mime of a provided entry.
C23_Matches(range, mime) ==
    \/ range = STAR_STAR
    \/ (range.type = mime.type /\ range.subtype \in {mime.subtype, STAR})

\* The considered items that match some provided entry.
C23_Matching(provided, accept) ==
    {i \in C23_Considered(accept) :
       \E j \in DOMAIN provided : C23_Matches(accept[i].item, provided[j].mime)}

\* The matching item of highest quality, the earliest of them.
C23_Best(provided, accept) ==
    CHOOSE i \in C23_Matching(provided, accept) :
      \A k \in C23_Matching(provided, accept) :
        \/ accept[k].quality < accept[i].quality
        \/ (accept[k].quality = accept[i].quality /\ i <= k)

\* The earliest provided entry the media range matches.
C23_First(provided, range) ==
    CHOOSE j \in DOMAIN provided :
      /\ C23_Matches(range, provided[j].mime)
      /\ \A k \in 1..(j - 1) : ~C23_Matches(range, provided[k].mime)

\* C23: map_accept_media returns the provided entry matched by the Accept
\* item of highest quality among the items that precede the first item of
\* quality zero and match a provided entry (an item matches an entry if it
\* is */*, or has the entry's type and either the entry's subtype or the
\* subtype *); on equal quality the earliest such Accept item wins, and of
\* the entries it matches the earliest; it returns none exactly when no
\* such item matches any provided entry.
C23_BestMatchOfAccept ==
    negotiation.pc = "returned" =>
      LET provided == negotiation.provided
          accept == negotiation.accept
      IN  negotiation.result =
            IF C23_Matching(provided, accept) = {}
              THEN None
              ELSE Some(provided[C23_First(
                          provided,
                          accept[C23_Best(provided, accept)].item)])

\* Two matching items of equal quality, neither behind a zero: text/*
\* matches the second and the third entry, application/json the first.
\* The earlier of the two entries of the first item was returned.
C23_Witness ==
    /\ negotiation.pc = "returned"
    /\ negotiation.accept = <<QItem(Mime("text", STAR), q(500)),
                              QItem(APPLICATION_JSON, q(500))>>
    /\ negotiation.provided = <<Provided(APPLICATION_JSON, "json"),
                                Provided(TEXT_HTML, "html"),
                                Provided(TEXT_PLAIN, "plain")>>
    /\ negotiation.result = Some(Provided(TEXT_HTML, "html"))

----------------------------------------------------------------------------
(* C24 *)

\* The response under construction carries a Location header.
C24_ResponseHasLocation ==
    IsSome(response) /\ has(Unwrap(response).headers, "Location")

\* p11 has just run.
C24_AfterP11 == decision_trace # <<>> /\ LastLabel = "p11"

\* process_post returned PostCreate and the accepted action for the
\* Content-Type of the request ran.
C24_PostCreateSucceeded ==
    /\ IsSome(cb["process_post"])
    /\ Unwrap(cb["process_post"]).kind = "PostCreate"
    /\ Visited("n11")
    /\ actions_run # <<>>

\* C24: p11 has halted with 201 when the response under construction
\* carries Location and has gone on to o20 when it does not; a successful
\* PostCreate, which sets Location on the response, has ended with 201.
C24_P11CreatedOnResponseLocation ==
    /\ C24_AfterP11 =>
         IF C24_ResponseHasLocation
           THEN Halted /\ Status = Created
           ELSE ~Halted /\ node = "o20"
    /\ (Halted /\ C24_PostCreateSucceeded) => Status = Created

----------------------------------------------------------------------------
(* C25 *)

\* The response under construction has no body or an empty one.
C25_BodyEmpty ==
    \/ ~IsSome(response)
    \/ ~IsSome(Unwrap(response).body)
    \/ Unwrap(Unwrap(response).body) = ""

\* C25: o20 has halted with 201 when the response under construction has an
\* empty body, the blank response no node has set a body on included, and
\* has gone on to o18 when a non-empty body has been set.
C25_O20CreatedOnEmptyBody ==
    (decision_trace # <<>> /\ LastLabel = "o20") =>
      IF C25_BodyEmpty
        THEN Halted /\ Status = Created
        ELSE ~Halted /\ node = "o18"

----------------------------------------------------------------------------
(* C26 *)

\* C26: l17 has gone on to m16 when the resource's last_modified is later
\* than the If-Modified-Since date of the request, and has halted with 304
\* otherwise.
C26_L17ModifiedSinceContinues ==
    (decision_trace # <<>> /\ LastLabel = "l17") =>
      LET if_mod_since == Unwrap(Unwrap(req["If-Modified-Since"]))
          m_last_modified == Unwrap(cb["last_modified"])
      IN  IF IsSome(m_last_modified) /\ Unwrap(m_last_modified) > if_mod_since
            THEN ~Halted /\ node = "m16"
            ELSE Halted /\ Status = NotModified

----------------------------------------------------------------------------
(* C27 *)

\* m20 has just run.
C27_AfterM20 == decision_trace # <<>> /\ LastLabel = "m20"

\* C27: the request m20 has run for is a DELETE; with delete_resource and
\* delete_completed both true the traversal has gone on to o20, with
\* delete_resource true and delete_completed false it has halted with 202,
\* and with delete_resource false it has halted with 500 whatever
\* delete_completed returned.
C27_DeleteOutcomes ==
    C27_AfterM20 =>
      /\ method = "DELETE"
      /\ IF Returned("delete_resource", TRUE)
           THEN IF Returned("delete_completed", TRUE)
                  THEN ~Halted /\ node = "o20"
                  ELSE Halted /\ Status = Accepted
           ELSE /\ Returned("delete_resource", FALSE)
                /\ Halted
                /\ Status = InternalServerError

C27_Witness ==
    /\ C27_AfterM20
    /\ Returned("delete_resource", TRUE)
    /\ Returned("delete_completed", FALSE)
    /\ Halted
    /\ Status = Accepted

----------------------------------------------------------------------------
(* C28 *)

\* The node has just run.
After(label) == decision_trace # <<>> /\ LastLabel = label

\* The If-Match header of the request, once a node has read it.
C28_IfMatch == Unwrap(req["If-Match"])

\* C28: h07 runs for a missing resource: it has halted with 412 when
\* If-Match is `*` and has gone on to i07 otherwise.  g09 and g11 run for an
\* existing resource with If-Match: `*` has gone from g09 to h10, a tag
\* list to g11, which has halted with 412 when the list is empty and has
\* gone on to h10 otherwise.  No other node answers 412 but h12 and j18,
\* which do not read If-Match.
C28_IfMatch412 ==
    /\ After("h07") =>
         /\ Returned("resource_exists", FALSE)
         /\ IF C28_IfMatch = Some(Any)
              THEN Halted /\ Status = PreconditionFailed
              ELSE ~Halted /\ node = "i07"
    /\ After("g09") =>
         /\ Returned("resource_exists", TRUE)
         /\ Present("If-Match")
         /\ ~Halted
         /\ node = IF C28_IfMatch = Some(Any) THEN "h10" ELSE "g11"
    /\ After("g11") =>
         /\ Returned("resource_exists", TRUE)
         /\ Present("If-Match")
         /\ Unwrap(C28_IfMatch).kind = "Items"
         /\ IF Unwrap(C28_IfMatch).etags = <<>>
              THEN Halted /\ Status = PreconditionFailed
              ELSE ~Halted /\ node = "h10"
    /\ (Halted /\ Status = PreconditionFailed)
         => LastLabel \in {"g11", "h07", "h12", "j18"}

C28_Witness ==
    /\ After("g11")
    /\ Unwrap(C28_IfMatch) = Items(<<>>)
    /\ Halted
    /\ Status = PreconditionFailed

----------------------------------------------------------------------------
(* C29 *)

\* The POST exception: the method is POST and allow_missing_post has
\* returned true.
C29_MissingPostAllowed ==
    method = "POST" /\ Returned("allow_missing_post", TRUE)

\* The callback has been invoked and has returned a location.
C29_Moved(c) == IsSome(cb[c]) /\ IsSome(Unwrap(cb[c]))

\* The request was handed to n11, which invoked process_post once.
C29_Posted == Visited("n11") /\ calls["process_post"] = 1

\* C29: k07 runs for a request that is not a PUT, to a resource that does
\* not exist, without If-Match `*`.  process_post is invoked only for a
\* POST with allow_missing_post true.  When the request has ended: with
\* previously_existed false the status is 404, with previously_existed true
\* it is 301 when moved_permanently is Some, else 307 when moved_temporarily
\* is Some, else 410; in the two places of 404 and 410 a POST with
\* allow_missing_post true is handed to process_post instead.
C29_MissingResourceOutcomes ==
    Visited("k07") =>
      /\ method # "PUT"
      /\ Returned("resource_exists", FALSE)
      /\ req["If-Match"] # Some(Some(Any))
      /\ calls["process_post"] > 0 => C29_MissingPostAllowed
      /\ Halted =>
           IF Returned("previously_existed", FALSE)
             THEN IF C29_MissingPostAllowed
                    THEN C29_Posted
                    ELSE Status = NotFound /\ calls["process_post"] = 0
             ELSE /\ Returned("previously_existed", TRUE)
                  /\ IF C29_Moved("moved_permanently")
                       THEN Status = MovedPermanently
                       ELSE IF C29_Moved("moved_temporarily")
                         THEN Status = TemporaryRedirect
                         ELSE IF C29_MissingPostAllowed
                           THEN C29_Posted
                           ELSE Status = Gone /\ calls["process_post"] = 0

\* A resource that existed and has not moved refuses a POST with 410.
C29_Witness ==
    /\ Halted
    /\ Visited("k07")
    /\ Returned("previously_existed", TRUE)
    /\ Returned("moved_permanently", None)
    /\ Returned("moved_temporarily", None)
    /\ method = "POST"
    /\ Returned("allow_missing_post", FALSE)
    /\ Status = Gone
    /\ LastLabel = "n05"

----------------------------------------------------------------------------
(* C30 *)

\* The entries of the accepted list whose mime equals the Content-Type of
\* the request; none when the request has no Content-Type.
C30_Equal(accepted, m_ct_hdr) ==
    IF IsSome(m_ct_hdr)
      THEN {j \in DOMAIN accepted : accepted[j].mime = Unwrap(m_ct_hdr)}
      ELSE {}

\* What o14 or p03, whichever ran, has done for the PUT.
C30_PutOutcome(label) ==
    /\ method = "PUT"
    /\ IF Returned("is_conflict", TRUE)
         THEN /\ Halted
              /\ LastLabel = label
              /\ Status = Conflict
              /\ actions_run = <<>>
              /\ calls["content_types_accepted"] = 0
         ELSE LET accepted == Unwrap(cb["content_types_accepted"])
                  equal == C30_Equal(accepted, Unwrap(req["Content-Type"]))
              IN  IF equal # {}
                    THEN /\ actions_run =
                              <<accepted[CHOOSE j \in equal :
                                           \A k \in equal : j <= k]>>
                         /\ Follows(label, "p11")
                         /\ After(label) => ~Halted /\ node = "p11"
                    ELSE /\ Halted
                         /\ LastLabel = label
                         /\ Status = UnsupportedMediaType
                         /\ actions_run = <<>>

\* C30: for a PUT that has passed o14 or p03: with is_conflict true the
\* response is 409 and no action has run; otherwise, with an entry of
\* content_types_accepted whose mime equals the Content-Type of the request,
\* the action of the first such entry has run, once, and no other, and the
\* traversal has gone on to p11; otherwise, without an equal entry or
\* without Content-Type, the response is 415 and no action has run.
C30_PutConflictActionOr415 ==
    /\ Visited("o14") => C30_PutOutcome("o14")
    /\ Visited("p03") => C30_PutOutcome("p03")

\* Two entries have the Content-Type of the request; the first one ran.
C30_Witness ==
    /\ method = "PUT"
    /\ Visited("o14")
    /\ Visited("p11")
    /\ Returned("is_conflict", FALSE)
    /\ req["Content-Type"] = Some(Some(APPLICATION_JSON))
    /\ Len(Unwrap(cb["content_types_accepted"])) = 3
    /\ actions_run = <<AcceptedType(APPLICATION_JSON, "()")>>

----------------------------------------------------------------------------
(* C31 *)

\* process_post returned PostCreate or PostCreateRedirect and n11 has run.
C31_Created ==
    /\ Visited("n11")
    /\ IsSome(cb["process_post"])
    /\ Unwrap(cb["process_post"]).kind \in {"PostCreate", "PostCreateRedirect"}

\* C31: after PostCreate or PostCreateRedirect the response under
\* construction carries as Location the request path, then ",", then the
\* returned segments joined by ",".
C31_LocationIsPathCommaSegments ==
    (C31_Created /\ IsSome(response)) =>
      /\ has(Unwrap(response).headers, "Location")
      /\ Unwrap(response).headers["Location"]
           = path \o "," \o join(Unwrap(cb["process_post"]).arg, ",")

----------------------------------------------------------------------------
(* C32 *)

\* The i-th template ends in `*`: its terminal leaf is a Wildcard.
C32_YieldsWildcard(i) == EndsInStar(Registered(i))

\* The first template of the RoutingSpec that yields a Wildcard at key k.
C32_EarliestWildcard(k) ==
    CHOOSE j \in DOMAIN routing_spec :
      /\ C32_YieldsWildcard(j)
      /\ TerminalKey(j) = k
      /\ \A h \in 1..(j - 1) :
           ~(C32_YieldsWildcard(h) /\ TerminalKey(h) = k)

\* C32: where a template of the RoutingSpec yields a Wildcard leaf at a key,
\* the built trie holds a Wildcard at that key whatever else was registered
\* there and in whatever order, and it is the Wildcard of the earliest
\* registered of the templates that yield one at that key.
C32_WildcardsWinTheirKey ==
    \A i \in DOMAIN routing_spec :
      C32_YieldsWildcard(i) =>
        LET k == TerminalKey(i)
            first == C32_EarliestWildcard(k)
        IN  /\ k \in DOMAIN airship_routes
            /\ airship_routes[k].kind = "Wildcard"
            /\ airship_routes[k].res
                 = Some(RoutedResource(Registered(first), first))

C32_Witness ==
    /\ routing_spec = <<<<"files </> ::v::", 1>>, <<"files </> *", 2>>>>
    /\ airship_routes["/files"].kind = "Wildcard"
    /\ LookedUp(1)
    /\ lookups[1].path = "/files"
    /\ Resolved(1)
    /\ Found(1).res.resource = 2

----------------------------------------------------------------------------
(* C33 *)

\* The first prefix match of client c's lookup landed on a RouteMatchOrVar
\* leaf and left some of the path unmatched.
C33_LandsOnMatchOrVar(c) ==
    /\ LookedUp(c)
    /\ IsSome(lookups[c].matched)
    /\ Unwrap(lookups[c].matched)[2].kind = "RouteMatchOrVar"
    /\ Unwrap(lookups[c].matched)[3] # ""

\* What the lookup returns when that leaf is taken for an RVar.
C33_AsRVar(c) ==
    LET m == Unwrap(lookups[c].matched)
    IN  match_route(airship_routes, Some(<<m[1], RVar, m[3]>>), <<>>, None)

\* C33: a lookup whose prefix match lands on a RouteMatchOrVar leaf with a
\* non-empty remainder goes on as from an RVar leaf; with the templates
\* blog and blog </> ::id:: registered, /blog resolves to the former and
\* /blog/5 to the latter.
C33_MatchOrVarContinuesAsRVar ==
    /\ \A c \in Clients :
         C33_LandsOnMatchOrVar(c) => lookups[c].result = C33_AsRVar(c)
    /\ \A c \in Clients :
       \A i, j \in DOMAIN routing_spec :
         (/\ routing_spec[i][1] = "blog"
          /\ routing_spec[j][1] = "blog </> ::id::"
          /\ LookedUp(c)
          /\ lookups[c].path \in {"/blog", "/blog/5"})
           => /\ Resolved(c)
              /\ Found(c).res.route
                   = Registered(IF lookups[c].path = "/blog" THEN i ELSE j)

----------------------------------------------------------------------------
(* C34 *)

\* C34: a lookup that resolves to a template without `*` has matched the
\* whole request path, and the dispatch path it returns is that path split
\* on '/' (with or without the empty text before the leading '/'), whether
\* the template has variables or not.
C34_DispatchIsMatchedPathSplit ==
    \A c \in Clients :
      (Resolved(c) /\ ~EndsInStar(Found(c).res.route))
        => Found(c).dispatch \in {split(lookups[c].path, "/"),
                                  Segments(lookups[c].path)}

----------------------------------------------------------------------------
(* C35 *)

\* The checks of the B column in their order: the node, the callback it
\* consults (b12 consults none), the result with which the check fails and
\* the status of its refusal.
C35_Checks ==
    <<[at |-> "b13", consults |-> "service_available", fails |-> FALSE,
       status |-> ServiceUnavailable],
      [at |-> "b12", consults |-> "", fails |-> FALSE,
       status |-> NotImplemented],
      [at |-> "b11", consults |-> "uri_too_long", fails |-> TRUE,
       status |-> UriTooLong],
      [at |-> "b10", consults |-> "allowed_methods", fails |-> FALSE,
       status |-> MethodNotAllowed],
      [at |-> "b09", consults |-> "malformed_request", fails |-> TRUE,
       status |-> BadRequest],
      [at |-> "b08", consults |-> "is_authorized", fails |-> FALSE,
       status |-> Unauthorized],
      [at |-> "b07", consults |-> "forbidden", fails |-> TRUE,
       status |-> Forbidden],
      [at |-> "b06", consults |-> "valid_content_headers", fails |-> FALSE,
       status |-> NotImplemented],
      [at |-> "b05", consults |-> "known_content_type", fails |-> FALSE,
       status |-> UnsupportedMediaType],
      [at |-> "b04", consults |-> "entity_too_large", fails |-> TRUE,
       status |-> PayloadTooLarge]>>

\* The n-th check has been applied and has failed.  allowed_methods is
\* consulted again at b03, so its answer is b10's while it was invoked once.
C35_Failed(n) ==
    /\ Len(decision_trace) >= n
    /\ CASE n = 2 -> ~(\E i \in DOMAIN KnownMethods : KnownMethods[i] = method)
         [] n = 4 -> /\ IsSome(cb["allowed_methods"])
                     /\ calls["allowed_methods"] = 1
                     /\ ~(\E i \in DOMAIN Unwrap(cb["allowed_methods"]) :
                            Unwrap(cb["allowed_methods"])[i] = method)
         [] OTHER -> Returned(C35_Checks[n].consults, C35_Checks[n].fails)

\* No callback of a check after the n-th, nor of any node after the B
\* column, has been invoked.
C35_NothingLaterInvoked(n) ==
    /\ \A m \in (n + 1)..Len(C35_Checks) :
         C35_Checks[m].consults # "" => calls[C35_Checks[m].consults] = 0
    /\ \A c \in LaterCallbacks \cup {"content_types_provided"} : calls[c] = 0

\* C35: the traversal applies the checks of b13 down to b04 in that order;
\* a check that fails ends it there with that check's status, whatever the
\* callbacks of the later checks would have answered, for none of them is
\* invoked; and a traversal that ended at one of these nodes ended on that
\* node's failed check, every check before it having passed.
C35_FirstFailingCheckDecides ==
    /\ \A i \in DOMAIN decision_trace :
         i <= Len(C35_Checks) => decision_trace[i] = C35_Checks[i].at
    /\ \A n \in DOMAIN C35_Checks :
         C35_Failed(n)
           => /\ Halted
              /\ Len(decision_trace) = n
              /\ Status = C35_Checks[n].status
              /\ C35_NothingLaterInvoked(n)
    /\ \A n \in DOMAIN C35_Checks :
         (Halted /\ Len(decision_trace) = n)
           => /\ C35_Failed(n)
              /\ \A m \in 1..(n - 1) : ~C35_Failed(m)

C35_Witness ==
    /\ Halted
    /\ decision_trace = <<"b13", "b12", "b11", "b10", "b09", "b08", "b07">>
    /\ Status = Forbidden
    /\ method = "POST"
    /\ Returned("is_authorized", TRUE)
    /\ calls["valid_content_headers"] = 0
    /\ calls["entity_too_large"] = 0

----------------------------------------------------------------------------
(* C36 *)

\* The GET request and the HEAD request of the pair served side by side.
C36_Get == IF running = 1 THEN Snapshot ELSE Unwrap(parked)

C36_Head == IF running = 2 THEN Snapshot ELSE Unwrap(parked)

\* The two have taken the same number of steps.
C36_Abreast ==
    IsSome(parked) /\ Steps(C36_Get) = Steps(C36_Head)

\* allowed_methods, where b10 has asked it, allowed GET and HEAD alike.
C36_BothAllowed ==
    IsSome(C36_Get.cb["allowed_methods"])
      => /\ \E i \in DOMAIN Unwrap(C36_Get.cb["allowed_methods"]) :
              Unwrap(C36_Get.cb["allowed_methods"])[i] = "GET"
         /\ \E i \in DOMAIN Unwrap(C36_Get.cb["allowed_methods"]) :
              Unwrap(C36_Get.cb["allowed_methods"])[i] = "HEAD"

\* The two are at the same node with the same trace, have invoked the same
\* callbacks as often, carry the same response under construction (its
\* Content-Type and the body the producer made included), and have been
\* answered, if they have, with the same status, headers and body.
C36_Alike ==
    /\ C36_Get.node = C36_Head.node
    /\ C36_Get.decision_trace = C36_Head.decision_trace
    /\ C36_Get.calls = C36_Head.calls
    /\ C36_Get.response = C36_Head.response
    /\ C36_Get.matched_content_type = C36_Head.matched_content_type
    /\ C36_Get.actions_run = C36_Head.actions_run
    /\ C36_Get.final = C36_Head.final

\* The two RequestStates took the same time from the clock, as far as a
\* node has read it.
C36_SameTime == C36_Get.request_time = C36_Head.request_time

\* C36 as stated: a GET request and a HEAD request with the same headers,
\* met by the same callback results and with both methods allowed, are
\* alike after every step.
C36_GetAndHeadAlike ==
    (C36_Abreast /\ C36_BothAllowed) => C36_Alike

\* C36, amended: a GET request and a HEAD request with the same headers,
\* met by the same callback results, with both methods allowed and whose
\* RequestStates hold the same request time, are alike after every step.
C36_GetAndHeadAlikeAtTheSameTime ==
    (C36_Abreast /\ C36_BothAllowed /\ C36_SameTime) => C36_Alike

C36_Witness ==
    /\ C36_Abreast
    /\ C36_BothAllowed
    /\ C36_SameTime
    /\ IsSome(request_time)
    /\ running = 2
    /\ method = "HEAD"
    /\ Halted
    /\ After("o18")
    /\ Status = Ok
    /\ IsSome(Unwrap(final).body)
    /\ C36_Get.final = final
    /\ calls["multiple_choices"] = 1

----------------------------------------------------------------------------
(* C37 *)

\* C37: a path that matches a registered template without `*` segment by
\* segment (a literal by the whole segment, a variable by any non-empty
\* segment) resolves to a resource, whatever else is registered.
C37_LookupComplete ==
    \A c \in Clients :
    \A i \in DOMAIN routing_spec :
      (LookedUp(c) /\ MatchesBySegment(Registered(i), lookups[c].path))
        => Resolved(c)

----------------------------------------------------------------------------
(* C38 *)

\* The path begins with one segment for each part the route has before its
\* `*`: the literal itself for a literal, a non-empty text for a variable.
C38_MatchesUpToStar(r, p) ==
    LET before == LiteralPrefix(r)
    IN  /\ EndsInStar(r)
        /\ Len(Segments(p)) >= Len(before)
        /\ \A n \in DOMAIN before :
             IF before[n].kind = "Bound" THEN Segments(p)[n] = before[n].text
             ELSE Segments(p)[n] # ""

\* C38: a lookup that returns a resource has a path that matches the
\* resource's template segment by segment, whole segments against literals;
\* a template's literals that end inside a segment of the path (the template
\* files </> * against /filesystem) do not make a match.
C38_LookupSound ==
    \A c \in Clients :
      Resolved(c)
        => \/ MatchesBySegment(Found(c).res.route, lookups[c].path)
           \/ C38_MatchesUpToStar(Found(c).res.route, lookups[c].path)

----------------------------------------------------------------------------
(* C39 *)

C39_IsSuffix(s, t) ==
    Len(s) <= Len(t) /\ SubSeq(t, Len(t) - Len(s) + 1, Len(t)) = s

\* What the path has after the segments that stand for the parts of the
\* route before its `*`.
C39_AfterStar(r, p) ==
    join(SubSeq(Segments(p), Len(r), Len(Segments(p))), "/")

\* C39: a lookup that resolves to a template ending in `*` returns no
\* params, also where variables stand before the `*`, and a dispatch path
\* of one entry, which is an end of the request path and, where the path
\* matches the template segment by segment, holds nothing of the segments
\* that stood for the literals and variables.
C39_WildcardMatchHasNoParams ==
    \A c \in Clients :
      (Resolved(c) /\ EndsInStar(Found(c).res.route))
        => /\ DOMAIN Found(c).params = {}
           /\ Len(Found(c).dispatch) = 1
           /\ C39_IsSuffix(Found(c).dispatch[1], lookups[c].path)
           /\ C38_MatchesUpToStar(Found(c).res.route, lookups[c].path)
                => C39_IsSuffix(Found(c).dispatch[1],
                                C39_AfterStar(Found(c).res.route,
                                              lookups[c].path))

C39_Witness ==
    /\ routing_spec = <<<<"blog </> ::id:: </> *", 1>>>>
    /\ Resolved(1)
    /\ lookups[1].path = "/blog/5/x/y"
    /\ HasVar(Found(1).res.route)
    /\ DOMAIN Found(1).params = {}
    /\ Found(1).dispatch = <<"x/y">>

============================================================================
